---- MODULE Spec2Model ----
(***************************************************************************)
(* Model of the buffer containers of mirheo/core/containers.h:             *)
(* DeviceBuffer<T>, HostBuffer<T> and PinnedBuffer<T>, their allocations   *)
(* (cudaMalloc / cudaHostAlloc / cudaFree / cudaFreeHost), and the CUDA    *)
(* stream on which the asynchronous copies and memsets are enqueued.       *)
(*                                                                         *)
(* A pointer is the identity of an allocation (an address that is never    *)
(* handed out twice), nullptr is 0.  An allocation holds `cap` elements;   *)
(* its contents are kept as an explicit prefix `data` followed by cells    *)
(* that all hold `fill`, the indeterminate value the cells had when the    *)
(* allocation was made.  The stream is a FIFO of pending operations that   *)
(* hold raw pointers; they read and write memory when they execute, not    *)
(* when they are enqueued.  cudaFree and cudaFreeHost release at once:     *)
(* the only waits are the cudaStreamSynchronize calls and the synchronous  *)
(* cudaMemcpy calls the source writes.                                     *)
(***************************************************************************)
EXTENDS Integers, Sequences, FiniteSets, TLC

VARIABLES
    cont,        \* the containers: [live, size, capacity, devptr, hostptr] per object
    heap,        \* the allocations, by address: [state, space, cap, fill, data]
    stream,      \* the operations enqueued on the CUDA stream and not yet executed
    doubleFree,  \* an allocation that was not live has been freed
    badAccess,   \* memory was read or written through a null or dangling pointer
    calls,       \* number of operations the submitting thread has issued
    last,        \* the operation issued last, its arguments and the objects before it
    pc,          \* position of the submitting thread in a scripted scenario
    script       \* the inputs of the scripted scenario

vars == <<cont, heap, stream, doubleFree, badAccess, calls, last, pc, script>>

-----------------------------------------------------------------------------
(* Bounds of the model *)

\* number of container operations issued by the submitting thread in one run
MaxCalls == 3
\* a small element count requested of resize and the constructors
SmallN == 2
\* non-zero element values a host write or a kernel stores: 1..MaxVal
MaxVal == 2
\* number of addresses the allocators can hand out in one run
MaxAllocs == 6
\* largest request of the growth-policy specification
MaxGrowN == 345
MaxWarmup == 1
MaxElemSize == 4

-----------------------------------------------------------------------------
(* Program constants *)

nullptr == 0
\* the alignment granularity of the capacity, in elements
Granularity == 128

Max(a, b) == IF a >= b THEN a ELSE b
Min(a, b) == IF a <= b THEN a ELSE b

-----------------------------------------------------------------------------
(* The growth policy: ceil(1.1 * (double) n + 10.0), computed as the build *)
(* computes it, in IEEE-754 binary64 with round-to-nearest-even.  A value  *)
(* is kept as an integer part and a 52-bit fraction in four base-2^13      *)
(* digits, most significant first: every double in [1, 4096) is such a     *)
(* value.                                                                  *)

Base == 2^13

\* the fraction bits 0x199999999999A of the double nearest to 1.1
\* (0x3FF199999999999A): 1.1 is not a double, the literal is slightly above it
Frac11 == <<819, 1638, 3276, 6554>>

ZeroFrac == <<0, 0, 0, 0>>

\* digits + c at the least significant digit, as <<carry out, digits>>
AddLow(frac, c) ==
    LET t4 == frac[4] + c
        t3 == frac[3] + (t4 \div Base)
        t2 == frac[2] + (t3 \div Base)
        t1 == frac[1] + (t2 \div Base)
    IN  [carry |-> t1 \div Base,
         frac  |-> <<t1 % Base, t2 % Base, t3 % Base, t4 % Base>>]

\* the exact product n * 1.1d
MulDouble11(n) ==
    LET t4 == n * Frac11[4]
        t3 == n * Frac11[3] + (t4 \div Base)
        t2 == n * Frac11[2] + (t3 \div Base)
        t1 == n * Frac11[1] + (t2 \div Base)
    IN  [int  |-> n + (t1 \div Base),
         frac |-> <<t1 % Base, t2 % Base, t3 % Base, t4 % Base>>]

RECURSIVE Log2Floor(_)
Log2Floor(i) == IF i <= 1 THEN 0 ELSE 1 + Log2Floor(i \div 2)

\* round an exact value to the nearest double (53 significant bits, ties to even)
RoundDouble(x) ==
    IF x.int = 0 THEN x
    ELSE
    LET e    == Log2Floor(x.int)
        p    == 2^e
        low  == x.frac[4] % p
        kept == x.frac[4] - low
        up   == e >= 1 /\ (low > p \div 2 \/ (low = p \div 2 /\ (kept \div p) % 2 = 1))
        f0   == [x.frac EXCEPT ![4] = kept]
        r    == AddLow(f0, IF up THEN p ELSE 0)
    IN  [int |-> x.int + r.carry, frac |-> r.frac]

\* static_cast<size_t>(std::ceil(1.1 * static_cast<double>(n) + 10.0))
conservative_estimate(n) ==
    LET prod == RoundDouble(MulDouble11(n))
        sum  == RoundDouble([int |-> prod.int + 10, frac |-> prod.frac])
    IN  IF sum.frac = ZeroFrac THEN sum.int ELSE sum.int + 1

\* 128 * ((conservative_estimate + 127) / 128)
AlignUp(x) == Granularity * ((x + (Granularity - 1)) \div Granularity)

\* the capacity a reallocating _resize(n) sets, one definition per container
DeviceBuffer_newCapacity(n) == AlignUp(conservative_estimate(n))

\* a capacity that fits the request exactly
HostBuffer_newCapacity_exactFit(n) == n
HostBuffer_newCapacity(n)   == AlignUp(conservative_estimate(n))

\* a capacity without the factor 1.1
PinnedBuffer_newCapacity_noFactor(n) == AlignUp(n + 10)
PinnedBuffer_newCapacity(n) == AlignUp(conservative_estimate(n))

-----------------------------------------------------------------------------
(* Objects and memory *)

DeviceSlots == {"d1", "d2"}
HostSlots   == {"h1", "h2"}
PinnedSlots == {"p1", "p2"}
Slots       == DeviceSlots \cup HostSlots \cup PinnedSlots

Kind(c) == IF c \in DeviceSlots THEN "Device"
           ELSE IF c \in HostSlots THEN "Host" ELSE "Pinned"

\* the member initialisers: capacity{0}, _size{0}, devptr{nullptr}, hostptr{nullptr}
EmptyFields == [live |-> TRUE, size |-> 0, capacity |-> 0,
                devptr |-> nullptr, hostptr |-> nullptr]

\* an object that is not constructed, or was destroyed
NoObject == [EmptyFields EXCEPT !.live = FALSE]

Addrs == 1..MaxAllocs

\* a value no write of the program stores: what indeterminate memory may hold
Junk == MaxVal + 1
Values == 0..Junk
\* what a fresh allocation may hold: zero pages or anything else
FreshFills == {0, Junk}

NoAlloc == [state |-> "unused", space |-> "none", cap |-> 0, fill |-> 0, data |-> <<>>]

\* cell i (from 0) of an allocation
Cell(m, i) == IF i < Len(m.data) THEN m.data[i + 1] ELSE m.fill
\* k cells that all hold v
Const(v, k) == SubSeq([j \in 1..k |-> v], 1, k)
\* the first k cells
Prefix(m, k) == IF k <= Len(m.data) THEN SubSeq(m.data, 1, k)
                ELSE m.data \o Const(m.fill, k - Len(m.data))
\* the allocation with its first Len(vals) cells overwritten
WritePrefix(m, vals) ==
    [m EXCEPT !.data = IF Len(vals) >= Len(@) THEN vals
                       ELSE vals \o SubSeq(@, Len(vals) + 1, Len(@))]

\* The machine state the handlers transform
Machine == [cont |-> cont, heap |-> heap, stream |-> stream,
            doubleFree |-> doubleFree, badAccess |-> badAccess, did |-> <<>>]

\* the handler has made a runtime or library call: did lists them in order
Did(S, what) == [S EXCEPT !.did = Append(@, what)]

\* the one element of a singleton set: { e(x) : x \in {v} } evaluates v once
One(set) == CHOOSE x \in set : TRUE

Unused(h) == {a \in Addrs : h[a].state = "unused"}
\* the address the next allocation returns: an address not handed out before
NewAddr(S) == One({ CHOOSE a \in u : \A b \in u : a <= b : u \in {Unused(S.heap)} })

ValidIn(h, a, k) == a # nullptr /\ h[a].state = "live" /\ k <= h[a].cap
Valid(S, a, k) == ValidIn(S.heap, a, k)

\* cudaMalloc / cudaHostAlloc of cap elements: the contents are indeterminate
Malloc(S0, space, cap, g) ==
    One({ [Did(S, IF space = "device" THEN "cudaMalloc" ELSE "cudaHostAlloc") EXCEPT
              !.heap[NewAddr(S)] =
                  [state |-> "live", space |-> space, cap |-> cap, fill |-> g, data |-> <<>>]]
          : S \in {S0} })

\* cudaFree / cudaFreeHost: a no-op on nullptr; releases at once, waiting for nothing
Free(S0, a) ==
    One({ IF a = nullptr THEN S
          ELSE IF S.heap[a].state = "live" THEN [S EXCEPT !.heap[a].state = "freed"]
          ELSE [S EXCEPT !.doubleFree = TRUE]
          : S \in {IF a = nullptr THEN S0
                   ELSE Did(S0, IF S0.heap[a].space = "device" THEN "cudaFree"
                                ELSE "cudaFreeHost")} })

\* what a read of k cells through pointer a yields: from a freed allocation,
\* either what it held last (stale) or anything else
ReadCells(h, a, k, stale) ==
    IF a # nullptr /\ (h[a].state = "live" \/ stale)
    THEN Prefix(h[a], k)
    ELSE Const(Junk, k)

\* memcpy / an executing cudaMemcpy of k elements
Memcpy(S0, dst, src, k, stale) ==
    One({ [Did(S, "memcpy") EXCEPT
             !.heap = IF ValidIn(S.heap, dst, k)
                      THEN [@ EXCEPT ![dst] = WritePrefix(@, ReadCells(S.heap, src, k, stale))]
                      ELSE @,
             !.badAccess = @ \/ ~ValidIn(S.heap, dst, k) \/ ~ValidIn(S.heap, src, k)]
          : S \in {S0} })

\* the j-th of the f equal parts of the bytes of element value v: the parts of
\* zero bytes are zero bytes, the parts of anything else are tagged with f and j
Part(v, j, f) == IF v = 0 \/ v = Junk \/ f = 1 THEN v ELSE (v * MaxElemSize + f) * MaxElemSize + j

\* the bytes of the cells seen as elements f times smaller
Split(cells, f) ==
    SubSeq([i \in 1..(Len(cells) * f) |->
               Part(cells[((i - 1) \div f) + 1], (i - 1) % f, f)], 1, Len(cells) * f)

\* an executing cudaMemcpy of k destination elements, read from k / f source
\* elements that are f times as large
MemcpySplit(S0, dst, src, k, f, stale) ==
    One({ [Did(S, "memcpy") EXCEPT
             !.heap = IF ValidIn(S.heap, dst, k)
                      THEN [@ EXCEPT ![dst] =
                               WritePrefix(@, Split(ReadCells(S.heap, src, k \div f, stale), f))]
                      ELSE @,
             !.badAccess = @ \/ ~ValidIn(S.heap, dst, k) \/ ~ValidIn(S.heap, src, k \div f)]
          : S \in {S0} })

\* memset / an executing cudaMemset of k elements to zero bytes
Memset(S0, dst, k) ==
    One({ IF ValidIn(S.heap, dst, k)
          THEN [S EXCEPT !.heap[dst] = WritePrefix(@, Const(0, k))]
          ELSE [S EXCEPT !.badAccess = TRUE]
          : S \in {Did(S0, "memset")} })

-----------------------------------------------------------------------------
(* The stream *)

MemcpyOp(dst, src, k) ==
    [type |-> "memcpy", dst |-> dst, src |-> src, count |-> k, factor |-> 1]
MemsetOp(dst, k) ==
    [type |-> "memset", dst |-> dst, src |-> nullptr, count |-> k, factor |-> 1]

\* a transfer of k destination elements out of source elements f times as large
GenericMemcpyOp(dst, src, k, f) ==
    [type |-> "memcpy", dst |-> dst, src |-> src, count |-> k, factor |-> f]

\* cudaMemcpyAsync / cudaMemsetAsync: enqueue, touch nothing yet
Enqueue(S, op) == [S EXCEPT !.stream = Append(@, op), !.did = Append(@, "enqueue")]

\* the device executes one operation
ExecOp(S, op, stale) ==
    [(IF op.type = "memset" THEN Memset(S, op.dst, op.count)
      ELSE IF op.factor = 1 THEN Memcpy(S, op.dst, op.src, op.count, stale)
      ELSE MemcpySplit(S, op.dst, op.src, op.count, op.factor, stale))
     EXCEPT !.did = S.did]

\* the device executes the first k pending operations, in order
RECURSIVE RunStream(_, _, _)
RunStream(S0, k, stale) ==
    One({ IF k = 0 \/ S.stream = <<>> THEN S
          ELSE RunStream(ExecOp([S EXCEPT !.stream = Tail(@)], Head(S.stream), stale),
                         k - 1, stale)
          : S \in {S0} })

\* a synchronisation that returns after the first pending operation
cudaStreamSynchronize_oneOp(S0, stale) == RunStream(S0, 1, stale)

\* cudaStreamSynchronize: returns when everything enqueued has executed
cudaStreamSynchronize(S0, stale) ==
    One({ RunStream(S, Len(S.stream), stale) : S \in {Did(S0, "cudaStreamSynchronize")} })

-----------------------------------------------------------------------------
(* DeviceBuffer<T>.  A handler maps the machine state before the call to   *)
(* the machine state when the call returns.  nd carries what the call does *)
(* not decide: nd.fill, the contents of memory it allocates; nd.stale,     *)
(* what a read of freed memory yields; nd.run, how many pending operations *)
(* the device executes while the call is between two of its statements.    *)

\* a reallocation that waits for the stream before it frees the old allocation
DeviceBuffer__grow_synchronized(S, c, n, copy, nd) ==
    LET dold    == S.cont[c].devptr
        oldsize == S.cont[c].size
        a       == NewAddr(S)
        cp      == DeviceBuffer_newCapacity(n)
        S2      == [Malloc(S, "device", cp, nd.fill) EXCEPT
                       !.cont[c].size = n, !.cont[c].capacity = cp, !.cont[c].devptr = a]
        S3      == IF copy /\ dold # nullptr /\ oldsize > 0
                   THEN Enqueue(S2, MemcpyOp(a, dold, oldsize)) ELSE S2
    IN  Free(cudaStreamSynchronize(S3, nd.stale), dold)

\* _resize past "if (capacity >= n) return": allocate, copy, release
DeviceBuffer__grow(S, c, n, copy, nd) ==
    LET dold    == S.cont[c].devptr
        oldsize == S.cont[c].size
        a       == NewAddr(S)
        cp      == DeviceBuffer_newCapacity(n)
        S2      == [Malloc(S, "device", cp, nd.fill) EXCEPT
                       !.cont[c].size = n, !.cont[c].capacity = cp, !.cont[c].devptr = a]
        S3      == IF copy /\ dold # nullptr /\ oldsize > 0
                   THEN Enqueue(S2, MemcpyOp(a, dold, oldsize)) ELSE S2
    \* nothing orders cudaFree after the stream: the device may or may not
    \* have executed the copy when the old allocation is released
    IN  Free(RunStream(S3, nd.run, nd.stale), dold)

\* a _resize without the reallocation: the request is only recorded
DeviceBuffer__resize_noGrow(S0, c, n, copy, nd) ==
    [S0 EXCEPT !.cont[c].size = n]

DeviceBuffer__resize(S0, c, n, copy, nd) ==
    One({ IF S.cont[c].capacity >= n THEN [S EXCEPT !.cont[c].size = n]
          ELSE DeviceBuffer__grow(S, c, n, copy, nd)
          : S \in {S0} })

DeviceBuffer_resize(S, c, n, nd)      == DeviceBuffer__resize(S, c, n, TRUE, nd)
DeviceBuffer_resize_anew(S, c, n, nd) == DeviceBuffer__resize(S, c, n, FALSE, nd)

\* DeviceBuffer(size_t n = 0)
DeviceBuffer_ctor(S, c, n, nd) ==
    DeviceBuffer_resize_anew([S EXCEPT !.cont[c] = EmptyFields], c, n, nd)

\* a move assignment that forgets "b.devptr = nullptr"
DeviceBuffer_moveAssign_aliasing(S0, c, b) ==
    One({ IF c = b THEN S
          ELSE [(IF S.cont[c].devptr # nullptr THEN Free(S, S.cont[c].devptr) ELSE S)
                   EXCEPT !.cont[c].capacity = S.cont[b].capacity,
                          !.cont[c].size     = S.cont[b].size,
                          !.cont[c].devptr   = S.cont[b].devptr,
                          !.cont[b].capacity = 0,
                          !.cont[b].size     = 0]
          : S \in {S0} })

\* operator=(DeviceBuffer&& b)
DeviceBuffer_moveAssign(S0, c, b) ==
    One({ IF c = b THEN S
          ELSE [(IF S.cont[c].devptr # nullptr THEN Free(S, S.cont[c].devptr) ELSE S)
                   EXCEPT !.cont[c].capacity = S.cont[b].capacity,
                          !.cont[c].size     = S.cont[b].size,
                          !.cont[c].devptr   = S.cont[b].devptr,
                          !.cont[b].capacity = 0,
                          !.cont[b].size     = 0,
                          !.cont[b].devptr   = nullptr]
          : S \in {S0} })

\* DeviceBuffer(DeviceBuffer&& b)
DeviceBuffer_moveCtor(S, c, b) ==
    DeviceBuffer_moveAssign([S EXCEPT !.cont[c] = EmptyFields], c, b)

\* ~DeviceBuffer()
DeviceBuffer_dtor(S0, c) ==
    One({ [(IF S.cont[c].devptr # nullptr THEN Free(S, S.cont[c].devptr) ELSE S)
              EXCEPT !.cont[c] = NoObject]
          : S \in {S0} })

\* clearDevice(stream)
DeviceBuffer_clearDevice(S0, c) ==
    One({ IF S.cont[c].size > 0
          THEN Enqueue(S, MemsetOp(S.cont[c].devptr, S.cont[c].size)) ELSE S
          : S \in {S0} })

\* clear(stream)
DeviceBuffer_clear(S, c) == DeviceBuffer_clearDevice(S, c)

\* a transfer with source and destination exchanged
DeviceBuffer_memcpyAsync_reversed(S0, c, from) ==
    One({ IF S.cont[c].size > 0
          THEN Enqueue(S, MemcpyOp(from, S.cont[c].devptr, S.cont[c].size)) ELSE S
          : S \in {S0} })

\* if (_size > 0) cudaMemcpyAsync(devptr, from, sizeof(T) * _size, ..., stream)
DeviceBuffer_memcpyAsync(S0, c, from) ==
    One({ IF S.cont[c].size > 0
          THEN Enqueue(S, MemcpyOp(S.cont[c].devptr, from, S.cont[c].size)) ELSE S
          : S \in {S0} })

\* copy(const Cont& cont, stream), cont.devPtr() a pointer: device to device
DeviceBuffer_copyDev(S0, c, b, nd) ==
    One({ DeviceBuffer_memcpyAsync(DeviceBuffer_resize_anew(S, c, S.cont[b].size, nd),
                                   c, S.cont[b].devptr)
          : S \in {S0} })

\* copy(const Cont& cont, stream), cont.hostPtr() a pointer: host to device
DeviceBuffer_copyHost(S0, c, b, nd) ==
    One({ DeviceBuffer_memcpyAsync(DeviceBuffer_resize_anew(S, c, S.cont[b].size, nd),
                                   c, S.cont[b].hostptr)
          : S \in {S0} })

\* if (_size > 0) cudaMemcpy(devptr, from, ...): waits for the device, then copies
DeviceBuffer_memcpySync(S0, c, from, stale) ==
    One({ IF S.cont[c].size > 0
          THEN Memcpy(cudaStreamSynchronize(S, stale),
                      S.cont[c].devptr, from, S.cont[c].size, stale)
          ELSE S
          : S \in {S0} })

\* copy(const DeviceBuffer<T>& cont), the synchronous copy
DeviceBuffer_copySync(S0, c, b, nd) ==
    One({ DeviceBuffer_memcpySync(DeviceBuffer_resize_anew(S, c, S.cont[b].size, nd),
                                  c, S.cont[b].devptr, nd.stale)
          : S \in {S0} })

\* DeviceBuffer(const DeviceBuffer& b)
DeviceBuffer_copyCtor(S, c, b, nd) ==
    DeviceBuffer_copySync([S EXCEPT !.cont[c] = EmptyFields], c, b, nd)

\* copyFromDevice(const PinnedBuffer<T>&, stream), copyFromHost(const PinnedBuffer<T>&, stream)
DeviceBuffer_copyFromDevice(S, c, b, nd) == DeviceBuffer_copyDev(S, c, b, nd)
DeviceBuffer_copyFromHost(S, c, b, nd)   == DeviceBuffer_copyHost(S, c, b, nd)

-----------------------------------------------------------------------------
(* HostBuffer<T> *)

HostBuffer__grow(S, c, n, copy, nd) ==
    LET hold    == S.cont[c].hostptr
        oldsize == S.cont[c].size
        a       == NewAddr(S)
        cp      == HostBuffer_newCapacity(n)
        S2      == [Malloc(S, "host", cp, nd.fill) EXCEPT
                       !.cont[c].size = n, !.cont[c].capacity = cp, !.cont[c].hostptr = a]
        S3      == IF copy /\ hold # nullptr /\ oldsize > 0
                   THEN Memcpy(S2, a, hold, oldsize, nd.stale) ELSE S2
    IN  Free(S3, hold)

\* a _resize that also reallocates to fit a smaller request
HostBuffer__resize_refit(S0, c, n, copy, nd) ==
    One({ IF S.cont[c].capacity >= n /\ S.cont[c].capacity = HostBuffer_newCapacity(n)
          THEN [S EXCEPT !.cont[c].size = n]
          ELSE HostBuffer__grow(S, c, n, copy, nd)
          : S \in {S0} })

\* a _resize that reallocates whenever the request differs from the capacity
HostBuffer__resize_toFit(S0, c, n, copy, nd) ==
    One({ IF S.cont[c].capacity = n \/ n = 0 THEN [S EXCEPT !.cont[c].size = n]
          ELSE HostBuffer__grow(S, c, n, copy, nd)
          : S \in {S0} })

HostBuffer__resize(S0, c, n, copy, nd) ==
    One({ IF S.cont[c].capacity >= n THEN [S EXCEPT !.cont[c].size = n]
          ELSE HostBuffer__grow(S, c, n, copy, nd)
          : S \in {S0} })

HostBuffer_resize(S, c, n, nd)      == HostBuffer__resize(S, c, n, TRUE, nd)
HostBuffer_resize_anew(S, c, n, nd) == HostBuffer__resize(S, c, n, FALSE, nd)

\* HostBuffer(size_t n = 0)
HostBuffer_ctor(S, c, n, nd) ==
    HostBuffer_resize_anew([S EXCEPT !.cont[c] = EmptyFields], c, n, nd)

\* a move assignment that forgets "b._size = 0"
HostBuffer_moveAssign_keepsSize(S0, c, b) ==
    One({ IF c = b THEN S
          ELSE [(IF S.cont[c].hostptr # nullptr THEN Free(S, S.cont[c].hostptr) ELSE S)
                   EXCEPT !.cont[c].capacity = S.cont[b].capacity,
                          !.cont[c].size     = S.cont[b].size,
                          !.cont[c].hostptr  = S.cont[b].hostptr,
                          !.cont[b].capacity = 0,
                          !.cont[b].hostptr  = nullptr]
          : S \in {S0} })

\* operator=(HostBuffer&& b)
HostBuffer_moveAssign(S0, c, b) ==
    One({ IF c = b THEN S
          ELSE [(IF S.cont[c].hostptr # nullptr THEN Free(S, S.cont[c].hostptr) ELSE S)
                   EXCEPT !.cont[c].capacity = S.cont[b].capacity,
                          !.cont[c].size     = S.cont[b].size,
                          !.cont[c].hostptr  = S.cont[b].hostptr,
                          !.cont[b].capacity = 0,
                          !.cont[b].size     = 0,
                          !.cont[b].hostptr  = nullptr]
          : S \in {S0} })

\* HostBuffer(HostBuffer&& b)
HostBuffer_moveCtor(S, c, b) ==
    HostBuffer_moveAssign([S EXCEPT !.cont[c] = EmptyFields], c, b)

\* ~HostBuffer(): cudaFreeHost(hostptr), also when hostptr is null
HostBuffer_dtor(S0, c) ==
    One({ [Free(S, S.cont[c].hostptr) EXCEPT !.cont[c] = NoObject] : S \in {S0} })

\* memset(hostptr, 0, sizeof(T) * _size): writes nothing when _size is 0
HostBuffer_memset(S0, c) ==
    One({ IF S.cont[c].size > 0 THEN Memset(S, S.cont[c].hostptr, S.cont[c].size) ELSE S
          : S \in {S0} })

\* clear()
HostBuffer_clear(S, c) == HostBuffer_memset(S, c)

\* memcpy(hostptr, from, sizeof(T) * _size): copies nothing when _size is 0
HostBuffer_memcpy(S0, c, from, stale) ==
    One({ IF S.cont[c].size > 0
          THEN Memcpy(S, S.cont[c].hostptr, from, S.cont[c].size, stale) ELSE S
          : S \in {S0} })

\* copy(const Cont& cont), cont.hostPtr() a pointer: resize, then memcpy
HostBuffer_copyHost(S0, c, b, nd) ==
    One({ HostBuffer_memcpy(HostBuffer_resize(S, c, S.cont[b].size, nd),
                            c, S.cont[b].hostptr, nd.stale)
          : S \in {S0} })

\* HostBuffer(const HostBuffer& b)
HostBuffer_copyCtor(S, c, b, nd) ==
    HostBuffer_copyHost([S EXCEPT !.cont[c] = EmptyFields], c, b, nd)

\* if (_size > 0) cudaMemcpyAsync(hostptr, from, sizeof(T) * _size, ..., stream)
HostBuffer_memcpyAsync(S0, c, from) ==
    One({ IF S.cont[c].size > 0
          THEN Enqueue(S, MemcpyOp(S.cont[c].hostptr, from, S.cont[c].size)) ELSE S
          : S \in {S0} })

\* copy(const Cont& cont, stream), cont.devPtr() a pointer: resize, then cudaMemcpyAsync
HostBuffer_copyDev(S0, c, b, nd) ==
    One({ HostBuffer_memcpyAsync(HostBuffer_resize(S, c, S.cont[b].size, nd),
                                 c, S.cont[b].devptr)
          : S \in {S0} })

\* a check that accepts whenever either size divides the other
HostBuffer_incompatible_neither(srcSize, dstSize) ==
    srcSize % dstSize # 0 /\ dstSize % srcSize # 0

\* if (cont->datatype_size() % sizeof(T) != 0) die(...)
HostBuffer_incompatible(srcSize, dstSize) == srcSize % dstSize # 0

\* die(...): the program ends here
die(S) == Did(S, "die")

\* a transfer that waits for the stream before it returns
HostBuffer_genericTransfer_blocking(S0, c, src, f) ==
    One({ IF S.cont[c].size > 0
          THEN cudaStreamSynchronize(
                   Enqueue(S, GenericMemcpyOp(S.cont[c].hostptr, src, S.cont[c].size, f)),
                   FALSE)
          ELSE S
          : S \in {S0} })

\* genericCopy past the check: resize(cont->size() * typeSizeFactor), then
\* if (_size > 0) cudaMemcpyAsync(hostptr, cont->genericDevPtr(), sizeof(T) * _size, ...)
HostBuffer_genericTransfer(S0, c, src, f) ==
    One({ IF S.cont[c].size > 0
          THEN Enqueue(S, GenericMemcpyOp(S.cont[c].hostptr, src, S.cont[c].size, f))
          ELSE S
          : S \in {S0} })

\* a genericCopy that resizes first and checks the sizes afterwards
HostBuffer_genericCopy_lateCheck(S0, c, b, srcSize, dstSize, nd) ==
    One({ IF HostBuffer_incompatible(srcSize, dstSize) THEN die(S)
          ELSE HostBuffer_genericTransfer(S, c, S0.cont[b].devptr, srcSize \div dstSize)
          : S \in {HostBuffer_resize(S0, c, S0.cont[b].size * (srcSize \div dstSize), nd)} })

\* a genericCopy that takes the source's element count as its own
HostBuffer_genericCopy_unscaled(S0, c, b, srcSize, dstSize, nd) ==
    IF HostBuffer_incompatible(srcSize, dstSize) THEN die(S0)
    ELSE One({ HostBuffer_genericTransfer(
                   HostBuffer_resize(S, c, S.cont[b].size, nd),
                   c, S.cont[b].devptr, srcSize \div dstSize)
               : S \in {S0} })

\* genericCopy(const GPUcontainer* cont, stream), cont holding elements of
\* srcSize bytes, this buffer elements of dstSize bytes
HostBuffer_genericCopy(S0, c, b, srcSize, dstSize, nd) ==
    IF HostBuffer_incompatible(srcSize, dstSize) THEN die(S0)
    ELSE One({ HostBuffer_genericTransfer(
                   HostBuffer_resize(S, c, S.cont[b].size * (srcSize \div dstSize), nd),
                   c, S.cont[b].devptr, srcSize \div dstSize)
               : S \in {S0} })

-----------------------------------------------------------------------------
(* PinnedBuffer<T> *)

\* a preserving branch that fills the new device side from the old host side
PinnedBuffer__copyOld_crossed(S0, ah, ad, hold, dold, oldsize, stale) ==
    cudaStreamSynchronize(
        Enqueue(Memcpy(S0, ah, hold, oldsize, stale), MemcpyOp(ad, hold, oldsize)),
        stale)

\* the old contents of both sides are copied, each from its own side, and the
\* stream is synchronized before the old allocations are released
PinnedBuffer__copyOld(S0, ah, ad, hold, dold, oldsize, stale) ==
    cudaStreamSynchronize(
        Enqueue(Memcpy(S0, ah, hold, oldsize, stale), MemcpyOp(ad, dold, oldsize)),
        stale)

\* an allocation step that forgets the device side
PinnedBuffer__alloc_hostOnly(S0, c, n, cp, g) ==
    [Malloc(S0, "host", cp, g) EXCEPT
        !.cont[c].size = n, !.cont[c].capacity = cp, !.cont[c].hostptr = NewAddr(S0)]

\* cudaHostAlloc(&hostptr, ...); cudaMalloc(&devptr, ...)
PinnedBuffer__alloc(S0, c, n, cp, g) ==
    One({ [Malloc(S, "device", cp, g) EXCEPT !.cont[c].devptr = NewAddr(S)]
          : S \in {[Malloc(S0, "host", cp, g) EXCEPT
                       !.cont[c].size = n, !.cont[c].capacity = cp,
                       !.cont[c].hostptr = NewAddr(S0)]} })

\* a reallocation that carries over the host side only
PinnedBuffer__grow_hostPreserving(S, c, n, copy, nd) ==
    LET hold    == S.cont[c].hostptr
        dold    == S.cont[c].devptr
        oldsize == S.cont[c].size
    IN  One({ Free(Free(IF copy /\ hold # nullptr /\ oldsize > 0
                        THEN cudaStreamSynchronize(
                                 Memcpy(T, T.cont[c].hostptr, hold, oldsize, nd.stale),
                                 nd.stale)
                        ELSE T,
                        hold), dold)
              : T \in {PinnedBuffer__alloc(S, c, n, PinnedBuffer_newCapacity(n), nd.fill)} })

\* _resize past "if (capacity >= n) return"
PinnedBuffer__grow(S, c, n, copy, nd) ==
    LET hold    == S.cont[c].hostptr
        dold    == S.cont[c].devptr
        oldsize == S.cont[c].size
    IN  One({ Free(Free(IF copy /\ hold # nullptr /\ oldsize > 0
                        THEN PinnedBuffer__copyOld(T, T.cont[c].hostptr, T.cont[c].devptr,
                                                   hold, dold, oldsize, nd.stale)
                        ELSE T,
                        hold), dold)
              : T \in {PinnedBuffer__alloc(S, c, n, PinnedBuffer_newCapacity(n), nd.fill)} })

\* a _resize that also reallocates when the capacity is exactly n
PinnedBuffer__resize_eager(S0, c, n, copy, nd) ==
    One({ IF S.cont[c].capacity > n THEN [S EXCEPT !.cont[c].size = n]
          ELSE PinnedBuffer__grow(S, c, n, copy, nd)
          : S \in {S0} })

PinnedBuffer__resize(S0, c, n, copy, nd) ==
    One({ IF S.cont[c].capacity >= n THEN [S EXCEPT !.cont[c].size = n]
          ELSE PinnedBuffer__grow(S, c, n, copy, nd)
          : S \in {S0} })

\* a resize_anew that carries the old contents over
PinnedBuffer_resize_anew_preserving(S, c, n, nd) == PinnedBuffer__resize(S, c, n, TRUE, nd)

PinnedBuffer_resize(S, c, n, nd)      == PinnedBuffer__resize(S, c, n, TRUE, nd)
PinnedBuffer_resize_anew(S, c, n, nd) == PinnedBuffer__resize(S, c, n, FALSE, nd)

\* PinnedBuffer(size_t n = 0)
PinnedBuffer_ctor(S, c, n, nd) ==
    PinnedBuffer_resize_anew([S EXCEPT !.cont[c] = EmptyFields], c, n, nd)

\* a move assignment that copies the fields and leaves the source as it was
PinnedBuffer_moveAssign_shallow(S0, c, b) ==
    [S0 EXCEPT !.cont[c].capacity = S0.cont[b].capacity,
               !.cont[c].size     = S0.cont[b].size,
               !.cont[c].hostptr  = S0.cont[b].hostptr,
               !.cont[c].devptr   = S0.cont[b].devptr]

\* operator=(PinnedBuffer&& b): the destination's own allocations are not released
PinnedBuffer_moveAssign(S0, c, b) ==
    One({ IF c = b THEN S
          ELSE [S EXCEPT !.cont[c].capacity = S.cont[b].capacity,
                         !.cont[c].size     = S.cont[b].size,
                         !.cont[c].hostptr  = S.cont[b].hostptr,
                         !.cont[c].devptr   = S.cont[b].devptr,
                         !.cont[b].capacity = 0,
                         !.cont[b].size     = 0,
                         !.cont[b].devptr   = nullptr,
                         !.cont[b].hostptr  = nullptr]
          : S \in {S0} })

\* PinnedBuffer(PinnedBuffer&& b)
PinnedBuffer_moveCtor(S, c, b) ==
    PinnedBuffer_moveAssign([S EXCEPT !.cont[c] = EmptyFields], c, b)

\* ~PinnedBuffer()
PinnedBuffer_dtor(S0, c) ==
    One({ [(IF S.cont[c].devptr # nullptr
            THEN Free(Free(S, S.cont[c].hostptr), S.cont[c].devptr) ELSE S)
              EXCEPT !.cont[c] = NoObject]
          : S \in {S0} })

\* if (_size > 0) cudaMemcpyAsync(devptr, from, sizeof(T) * _size, ..., stream)
PinnedBuffer_memcpyAsyncToDevice(S0, c, from) ==
    One({ IF S.cont[c].size > 0
          THEN Enqueue(S, MemcpyOp(S.cont[c].devptr, from, S.cont[c].size)) ELSE S
          : S \in {S0} })

\* if (_size > 0) cudaMemcpyAsync(hostptr, devptr, sizeof(T) * _size, ..., stream)
PinnedBuffer_memcpyAsyncToHost(S0, c) ==
    One({ IF S.cont[c].size > 0
          THEN Enqueue(S, MemcpyOp(S.cont[c].hostptr, S.cont[c].devptr, S.cont[c].size))
          ELSE S
          : S \in {S0} })

\* memcpy(hostptr, from, sizeof(T) * _size), reached with _size > 0 or writing nothing
PinnedBuffer_memcpyHost(S0, c, from, stale) ==
    One({ IF S.cont[c].size > 0
          THEN Memcpy(S, S.cont[c].hostptr, from, S.cont[c].size, stale) ELSE S
          : S \in {S0} })

\* downloadFromDevice(stream, synch)
PinnedBuffer_downloadFromDevice_noSynch(S, c, synch, nd) ==
    PinnedBuffer_memcpyAsyncToHost(S, c)

PinnedBuffer_downloadFromDevice(S, c, synch, nd) ==
    IF synch THEN cudaStreamSynchronize(PinnedBuffer_memcpyAsyncToHost(S, c), nd.stale)
    ELSE PinnedBuffer_memcpyAsyncToHost(S, c)

\* uploadToDevice(stream)
PinnedBuffer_uploadToDevice(S0, c) ==
    One({ PinnedBuffer_memcpyAsyncToDevice(S, c, S.cont[c].hostptr) : S \in {S0} })

\* clearDevice(stream)
PinnedBuffer_clearDevice(S0, c) ==
    One({ IF S.cont[c].size > 0
          THEN Enqueue(S, MemsetOp(S.cont[c].devptr, S.cont[c].size)) ELSE S
          : S \in {S0} })

\* a clearHost that zero-fills the device side as well
PinnedBuffer_clearHost_both(S0, c) ==
    One({ IF S.cont[c].size > 0 THEN Memset(S, S.cont[c].hostptr, S.cont[c].size) ELSE S
          : S \in {PinnedBuffer_clearDevice(S0, c)} })

\* clearHost()
PinnedBuffer_clearHost(S0, c) ==
    One({ IF S.cont[c].size > 0 THEN Memset(S, S.cont[c].hostptr, S.cont[c].size) ELSE S
          : S \in {S0} })

\* a clear that leaves the host side alone
PinnedBuffer_clear_deviceOnly(S, c) == PinnedBuffer_clearDevice(S, c)

\* clear(stream)
PinnedBuffer_clear(S, c) == PinnedBuffer_clearHost(PinnedBuffer_clearDevice(S, c), c)

\* a copy that takes the source's size and transfers nothing
PinnedBuffer_copyDevice_sizeOnly(S0, c, b, nd) ==
    PinnedBuffer_resize_anew(S0, c, S0.cont[b].size, nd)

\* copy(const DeviceBuffer<T>& cont, stream)
PinnedBuffer_copyDevice(S0, c, b, nd) ==
    One({ PinnedBuffer_memcpyAsyncToDevice(
              PinnedBuffer_resize_anew(S, c, S.cont[b].size, nd), c, S.cont[b].devptr)
          : S \in {S0} })

\* copy(const HostBuffer<T>& cont)
PinnedBuffer_copyHost(S0, c, b, nd) ==
    One({ PinnedBuffer_memcpyHost(
              PinnedBuffer_resize_anew(S, c, S.cont[b].size, nd), c, S.cont[b].hostptr,
              nd.stale)
          : S \in {S0} })

\* a copy that fills the host side from the source's device side
PinnedBuffer_copyPinned_crossed(S0, c, b, nd) ==
    One({ PinnedBuffer_memcpyHost(
              PinnedBuffer_memcpyAsyncToDevice(
                  PinnedBuffer_resize_anew(S, c, S.cont[b].size, nd), c, S.cont[b].devptr),
              c, S.cont[b].devptr, nd.stale)
          : S \in {S0} })

\* copy(const PinnedBuffer<T>& cont, stream)
PinnedBuffer_copyPinned(S0, c, b, nd) ==
    One({ PinnedBuffer_memcpyHost(
              PinnedBuffer_memcpyAsyncToDevice(
                  PinnedBuffer_resize_anew(S, c, S.cont[b].size, nd), c, S.cont[b].devptr),
              c, S.cont[b].hostptr, nd.stale)
          : S \in {S0} })

\* a copyDeviceOnly that copies the host side as well
PinnedBuffer_copyDeviceOnly_both(S0, c, b, nd) == PinnedBuffer_copyPinned(S0, c, b, nd)

\* copyDeviceOnly(const PinnedBuffer<T>& cont, stream)
PinnedBuffer_copyDeviceOnly(S0, c, b, nd) ==
    One({ PinnedBuffer_memcpyAsyncToDevice(
              PinnedBuffer_resize_anew(S, c, S.cont[b].size, nd), c, S.cont[b].devptr)
          : S \in {S0} })

\* if (_size > 0) cudaMemcpy(devptr, from, ...): waits for the device, then copies
PinnedBuffer_memcpySync(S0, c, from, stale) ==
    One({ IF S.cont[c].size > 0
          THEN Memcpy(cudaStreamSynchronize(S, stale),
                      S.cont[c].devptr, from, S.cont[c].size, stale)
          ELSE S
          : S \in {S0} })

\* copy(const PinnedBuffer<T>& cont), the synchronous copy
PinnedBuffer_copySync(S0, c, b, nd) ==
    One({ PinnedBuffer_memcpyHost(
              PinnedBuffer_memcpySync(
                  PinnedBuffer_resize_anew(S, c, S.cont[b].size, nd),
                  c, S.cont[b].devptr, nd.stale),
              c, S.cont[b].hostptr, nd.stale)
          : S \in {S0} })

\* PinnedBuffer(const PinnedBuffer& b)
PinnedBuffer_copyCtor(S, c, b, nd) ==
    PinnedBuffer_copySync([S EXCEPT !.cont[c] = EmptyFields], c, b, nd)

-----------------------------------------------------------------------------
(* Writes of the program into a buffer through its accessors *)

\* the value a write with pattern v stores at index i: never zero, and
\* different at neighbouring indices
PatVal(v, i) == ((v + i) % MaxVal) + 1
Pattern(v, k) == SubSeq([j \in 1..k |-> PatVal(v, j - 1)], 1, k)

\* the host program stores values at [0, size) through operator[] / hostPtr()
HostWrite(S0, c, v) ==
    One({ IF S.cont[c].size > 0 /\ ValidIn(S.heap, S.cont[c].hostptr, S.cont[c].size)
          THEN [S EXCEPT !.heap[S.cont[c].hostptr] =
                             WritePrefix(@, Pattern(v, S.cont[c].size))]
          ELSE [S EXCEPT !.badAccess = @ \/ S.cont[c].size > 0]
          : S \in {S0} })

\* the values a kernel stores: never a value the host program stores
DevPattern(w, k) == SubSeq([j \in 1..k |-> 0 - PatVal(w, j - 1)], 1, k)

\* a kernel has stored values at [0, size) through devPtr() and has completed
DeviceWrite(S0, c, w) ==
    One({ IF S.cont[c].size > 0 /\ ValidIn(S.heap, S.cont[c].devptr, S.cont[c].size)
          THEN [S EXCEPT !.heap[S.cont[c].devptr] =
                             WritePrefix(@, DevPattern(w, S.cont[c].size))]
          ELSE [S EXCEPT !.badAccess = @ \/ S.cont[c].size > 0]
          : S \in {S0} })

-----------------------------------------------------------------------------
(* The submitting thread: one action per operation it can issue *)

\* sizes the program requests: none, a few elements, and the smallest size the
\* capacity allocated for a few elements cannot hold
BigN  == DeviceBuffer_newCapacity(SmallN) + 1
Sizes == {0, SmallN, BigN}

\* the first size cells of the side of c that pointer p names, <<>> with no storage
Side(h, p, k) == IF p = nullptr THEN <<>> ELSE Prefix(h[p], k)
DevSide(c)  == Side(heap, cont[c].devptr, cont[c].size)
HostSide(c) == Side(heap, cont[c].hostptr, cont[c].size)

NoCall == [op |-> "none", c |-> "-", b |-> "-", n |-> 0,
           old |-> NoObject, oldb |-> NoObject,
           quiet |-> TRUE, oldDev |-> <<>>, oldHost |-> <<>>, did |-> <<>>]

\* the record of a call: the operation, the object c it is called on, its
\* argument b or n, the fields of c and b before the call, whether the stream
\* was empty at the call, what the valid elements of c held at the call, and
\* (filled in when the call returns) the runtime calls the handler made
Call(op, c, b, n) == [op |-> op, c |-> c, b |-> b, n |-> n,
                      old |-> cont[c], oldb |-> IF b \in Slots THEN cont[b] ELSE NoObject,
                      quiet |-> (stream = <<>>),
                      oldDev |-> DevSide(c), oldHost |-> HostSide(c), did |-> <<>>]

Live(c)    == cont[c].live
\* the allocators can serve k more allocations
Room(k)    == Cardinality(Unused(heap)) >= k
MayCall    == calls < MaxCalls /\ pc = "free"

\* what the call leaves open: see the handlers
Choices(allocates, interleaves) ==
    [fill  : IF allocates THEN FreshFills ELSE {0},
     stale : IF stream = <<>> THEN {FALSE} ELSE BOOLEAN,
     run   : IF interleaves THEN {0, Len(stream) + 1} ELSE {0}]

Det == [fill |-> 0, stale |-> FALSE, run |-> 0]

\* the call returns: the machine is as the handler left it
Return(S0, rec) ==
    \E S \in {S0} :
        /\ cont'       = S.cont
        /\ heap'       = S.heap
        /\ stream'     = S.stream
        /\ doubleFree' = S.doubleFree
        /\ badAccess'  = S.badAccess
        /\ calls'      = calls + 1
        /\ last'       = [rec EXCEPT !.did = S.did]

Commit(S0, rec) == Return(S0, rec) /\ UNCHANGED <<pc, script>>

(* DeviceBuffer *)

DeviceConstruct ==
    /\ MayCall
    /\ \E c \in DeviceSlots, n \in Sizes : \E nd \in Choices(n > 0, FALSE) :
           /\ ~Live(c) /\ Room(1)
           /\ Commit(DeviceBuffer_ctor(Machine, c, n, nd), Call("ctor", c, "-", n))

DeviceCopyConstruct ==
    /\ MayCall
    /\ \E c \in DeviceSlots, b \in DeviceSlots : \E nd \in Choices(cont[b].size > 0, FALSE) :
           /\ ~Live(c) /\ Live(b) /\ Room(1)
           /\ Commit(DeviceBuffer_copyCtor(Machine, c, b, nd), Call("copyCtor", c, b, 0))

DeviceMoveConstruct ==
    /\ MayCall
    /\ \E c \in DeviceSlots, b \in DeviceSlots :
           /\ ~Live(c) /\ Live(b)
           /\ Commit(DeviceBuffer_moveCtor(Machine, c, b), Call("moveCtor", c, b, 0))

DeviceMoveAssign ==
    /\ MayCall
    /\ \E c \in DeviceSlots, b \in DeviceSlots :
           /\ Live(c) /\ Live(b)
           /\ Commit(DeviceBuffer_moveAssign(Machine, c, b), Call("moveAssign", c, b, 0))

DeviceDestroy ==
    /\ MayCall
    /\ \E c \in DeviceSlots :
           /\ Live(c)
           /\ Commit(DeviceBuffer_dtor(Machine, c), Call("dtor", c, "-", 0))

DeviceResize ==
    /\ MayCall
    /\ \E c \in DeviceSlots, n \in Sizes :
         \E nd \in Choices(cont[c].capacity < n, cont[c].capacity < n) :
           /\ Live(c) /\ Room(1)
           /\ Commit(DeviceBuffer_resize(Machine, c, n, nd), Call("resize", c, "-", n))

DeviceResizeAnew ==
    /\ MayCall
    /\ \E c \in DeviceSlots, n \in Sizes : \E nd \in Choices(cont[c].capacity < n, FALSE) :
           /\ Live(c) /\ Room(1)
           /\ Commit(DeviceBuffer_resize_anew(Machine, c, n, nd), Call("resize_anew", c, "-", n))

DeviceClear ==
    /\ MayCall
    /\ \E c \in DeviceSlots :
           /\ Live(c)
           /\ Commit(DeviceBuffer_clear(Machine, c), Call("clear", c, "-", 0))

DeviceCopy ==
    /\ MayCall
    /\ \E c \in DeviceSlots, b \in DeviceSlots :
         \E nd \in Choices(cont[c].capacity < cont[b].size, FALSE) :
           /\ Live(c) /\ Live(b) /\ Room(1)
           /\ Commit(DeviceBuffer_copyDev(Machine, c, b, nd), Call("copy", c, b, 0))

DeviceCopyFromHostBuffer ==
    /\ MayCall
    /\ \E c \in DeviceSlots, b \in HostSlots :
         \E nd \in Choices(cont[c].capacity < cont[b].size, FALSE) :
           /\ Live(c) /\ Live(b) /\ Room(1)
           /\ Commit(DeviceBuffer_copyHost(Machine, c, b, nd), Call("copy", c, b, 0))

DeviceCopySync ==
    /\ MayCall
    /\ \E c \in DeviceSlots, b \in DeviceSlots :
         \E nd \in Choices(cont[c].capacity < cont[b].size, FALSE) :
           /\ Live(c) /\ Live(b) /\ Room(1)
           /\ Commit(DeviceBuffer_copySync(Machine, c, b, nd), Call("copySync", c, b, 0))

DeviceCopyFromDevice ==
    /\ MayCall
    /\ \E c \in DeviceSlots, b \in PinnedSlots :
         \E nd \in Choices(cont[c].capacity < cont[b].size, FALSE) :
           /\ Live(c) /\ Live(b) /\ Room(1)
           /\ Commit(DeviceBuffer_copyFromDevice(Machine, c, b, nd),
                     Call("copyFromDevice", c, b, 0))

DeviceCopyFromHost ==
    /\ MayCall
    /\ \E c \in DeviceSlots, b \in PinnedSlots :
         \E nd \in Choices(cont[c].capacity < cont[b].size, FALSE) :
           /\ Live(c) /\ Live(b) /\ Room(1)
           /\ Commit(DeviceBuffer_copyFromHost(Machine, c, b, nd),
                     Call("copyFromHost", c, b, 0))

(* HostBuffer *)

HostConstruct ==
    /\ MayCall
    /\ \E c \in HostSlots, n \in Sizes : \E nd \in Choices(n > 0, FALSE) :
           /\ ~Live(c) /\ Room(1)
           /\ Commit(HostBuffer_ctor(Machine, c, n, nd), Call("ctor", c, "-", n))

HostCopyConstruct ==
    /\ MayCall
    /\ \E c \in HostSlots, b \in HostSlots : \E nd \in Choices(cont[b].size > 0, FALSE) :
           /\ ~Live(c) /\ Live(b) /\ Room(1)
           /\ Commit(HostBuffer_copyCtor(Machine, c, b, nd), Call("copyCtor", c, b, 0))

HostMoveConstruct ==
    /\ MayCall
    /\ \E c \in HostSlots, b \in HostSlots :
           /\ ~Live(c) /\ Live(b)
           /\ Commit(HostBuffer_moveCtor(Machine, c, b), Call("moveCtor", c, b, 0))

HostMoveAssign ==
    /\ MayCall
    /\ \E c \in HostSlots, b \in HostSlots :
           /\ Live(c) /\ Live(b)
           /\ Commit(HostBuffer_moveAssign(Machine, c, b), Call("moveAssign", c, b, 0))

HostDestroy ==
    /\ MayCall
    /\ \E c \in HostSlots :
           /\ Live(c)
           /\ Commit(HostBuffer_dtor(Machine, c), Call("dtor", c, "-", 0))

HostResize ==
    /\ MayCall
    /\ \E c \in HostSlots, n \in Sizes : \E nd \in Choices(cont[c].capacity < n, FALSE) :
           /\ Live(c) /\ Room(1)
           /\ Commit(HostBuffer_resize(Machine, c, n, nd), Call("resize", c, "-", n))

HostResizeAnew ==
    /\ MayCall
    /\ \E c \in HostSlots, n \in Sizes : \E nd \in Choices(cont[c].capacity < n, FALSE) :
           /\ Live(c) /\ Room(1)
           /\ Commit(HostBuffer_resize_anew(Machine, c, n, nd), Call("resize_anew", c, "-", n))

HostClear ==
    /\ MayCall
    /\ \E c \in HostSlots :
           /\ Live(c)
           /\ Commit(HostBuffer_clear(Machine, c), Call("clear", c, "-", 0))

HostCopy ==
    /\ MayCall
    /\ \E c \in HostSlots, b \in HostSlots \cup PinnedSlots :
         \E nd \in Choices(cont[c].capacity < cont[b].size, FALSE) :
           /\ Live(c) /\ Live(b) /\ Room(1)
           /\ Commit(HostBuffer_copyHost(Machine, c, b, nd), Call("copy", c, b, 0))

HostCopyFromDevice ==
    /\ MayCall
    /\ \E c \in HostSlots, b \in DeviceSlots \cup PinnedSlots :
         \E nd \in Choices(cont[c].capacity < cont[b].size, FALSE) :
           /\ Live(c) /\ Live(b) /\ Room(1)
           /\ Commit(HostBuffer_copyDev(Machine, c, b, nd), Call("copyDev", c, b, 0))

(* PinnedBuffer *)

PinnedConstruct ==
    /\ MayCall
    /\ \E c \in PinnedSlots, n \in Sizes : \E nd \in Choices(n > 0, FALSE) :
           /\ ~Live(c) /\ Room(2)
           /\ Commit(PinnedBuffer_ctor(Machine, c, n, nd), Call("ctor", c, "-", n))

PinnedCopyConstruct ==
    /\ MayCall
    /\ \E c \in PinnedSlots, b \in PinnedSlots : \E nd \in Choices(cont[b].size > 0, FALSE) :
           /\ ~Live(c) /\ Live(b) /\ Room(2)
           /\ Commit(PinnedBuffer_copyCtor(Machine, c, b, nd), Call("copyCtor", c, b, 0))

PinnedMoveConstruct ==
    /\ MayCall
    /\ \E c \in PinnedSlots, b \in PinnedSlots :
           /\ ~Live(c) /\ Live(b)
           /\ Commit(PinnedBuffer_moveCtor(Machine, c, b), Call("moveCtor", c, b, 0))

PinnedMoveAssign ==
    /\ MayCall
    /\ \E c \in PinnedSlots, b \in PinnedSlots :
           /\ Live(c) /\ Live(b)
           /\ Commit(PinnedBuffer_moveAssign(Machine, c, b), Call("moveAssign", c, b, 0))

PinnedDestroy ==
    /\ MayCall
    /\ \E c \in PinnedSlots :
           /\ Live(c)
           /\ Commit(PinnedBuffer_dtor(Machine, c), Call("dtor", c, "-", 0))

PinnedResize ==
    /\ MayCall
    /\ \E c \in PinnedSlots, n \in Sizes : \E nd \in Choices(cont[c].capacity < n, FALSE) :
           /\ Live(c) /\ Room(2)
           /\ Commit(PinnedBuffer_resize(Machine, c, n, nd), Call("resize", c, "-", n))

PinnedResizeAnew ==
    /\ MayCall
    /\ \E c \in PinnedSlots, n \in Sizes : \E nd \in Choices(cont[c].capacity < n, FALSE) :
           /\ Live(c) /\ Room(2)
           /\ Commit(PinnedBuffer_resize_anew(Machine, c, n, nd), Call("resize_anew", c, "-", n))

PinnedDownload ==
    /\ MayCall
    /\ \E c \in PinnedSlots, synch \in BOOLEAN : \E nd \in Choices(FALSE, FALSE) :
           /\ Live(c)
           /\ Commit(PinnedBuffer_downloadFromDevice(Machine, c, synch, nd),
                     Call(IF synch THEN "downloadSynch" ELSE "downloadAsynch", c, "-", 0))

PinnedUpload ==
    /\ MayCall
    /\ \E c \in PinnedSlots :
           /\ Live(c)
           /\ Commit(PinnedBuffer_uploadToDevice(Machine, c), Call("upload", c, "-", 0))

PinnedClear ==
    /\ MayCall
    /\ \E c \in PinnedSlots :
           /\ Live(c)
           /\ Commit(PinnedBuffer_clear(Machine, c), Call("clear", c, "-", 0))

PinnedClearDevice ==
    /\ MayCall
    /\ \E c \in PinnedSlots :
           /\ Live(c)
           /\ Commit(PinnedBuffer_clearDevice(Machine, c), Call("clearDevice", c, "-", 0))

PinnedClearHost ==
    /\ MayCall
    /\ \E c \in PinnedSlots :
           /\ Live(c)
           /\ Commit(PinnedBuffer_clearHost(Machine, c), Call("clearHost", c, "-", 0))

PinnedCopyFromDeviceBuffer ==
    /\ MayCall
    /\ \E c \in PinnedSlots, b \in DeviceSlots :
         \E nd \in Choices(cont[c].capacity < cont[b].size, FALSE) :
           /\ Live(c) /\ Live(b) /\ Room(2)
           /\ Commit(PinnedBuffer_copyDevice(Machine, c, b, nd), Call("copy", c, b, 0))

PinnedCopyFromHostBuffer ==
    /\ MayCall
    /\ \E c \in PinnedSlots, b \in HostSlots :
         \E nd \in Choices(cont[c].capacity < cont[b].size, FALSE) :
           /\ Live(c) /\ Live(b) /\ Room(2)
           /\ Commit(PinnedBuffer_copyHost(Machine, c, b, nd), Call("copy", c, b, 0))

PinnedCopy ==
    /\ MayCall
    /\ \E c \in PinnedSlots, b \in PinnedSlots :
         \E nd \in Choices(cont[c].capacity < cont[b].size, FALSE) :
           /\ Live(c) /\ Live(b) /\ Room(2)
           /\ Commit(PinnedBuffer_copyPinned(Machine, c, b, nd), Call("copy", c, b, 0))

PinnedCopyDeviceOnly ==
    /\ MayCall
    /\ \E c \in PinnedSlots, b \in PinnedSlots :
         \E nd \in Choices(cont[c].capacity < cont[b].size, FALSE) :
           /\ Live(c) /\ Live(b) /\ Room(2)
           /\ Commit(PinnedBuffer_copyDeviceOnly(Machine, c, b, nd),
                     Call("copyDeviceOnly", c, b, 0))

PinnedCopySync ==
    /\ MayCall
    /\ \E c \in PinnedSlots, b \in PinnedSlots :
         \E nd \in Choices(cont[c].capacity < cont[b].size, FALSE) :
           /\ Live(c) /\ Live(b) /\ Room(2)
           /\ Commit(PinnedBuffer_copySync(Machine, c, b, nd), Call("copySync", c, b, 0))

(* The program's own writes and the device *)

\* the host program fills [0, size) of a host-side buffer
WriteHost ==
    /\ MayCall
    /\ \E c \in HostSlots \cup PinnedSlots, v \in 1..MaxVal :
           /\ Live(c) /\ cont[c].size > 0
           /\ Commit(HostWrite(Machine, c, v), Call("write", c, "-", v))

\* a kernel fills [0, size) of a device-side buffer; it runs after everything
\* that was on the stream
WriteDevice ==
    /\ MayCall /\ stream = <<>>
    /\ \E c \in DeviceSlots \cup PinnedSlots, w \in 1..MaxVal :
           /\ Live(c) /\ cont[c].size > 0
           /\ Commit(DeviceWrite(Machine, c, w), Call("writeDevice", c, "-", w))

\* the device executes the operation at the head of the stream
StreamExec ==
    \E stale \in (IF stream = <<>> THEN {FALSE} ELSE BOOLEAN) :
        /\ stream # <<>>
        /\ \E S \in {RunStream(Machine, 1, stale)} :
               /\ heap'      = S.heap
               /\ stream'    = S.stream
               /\ badAccess' = S.badAccess
        /\ UNCHANGED <<cont, doubleFree, calls, last, pc, script>>

-----------------------------------------------------------------------------
(* The general specification: the first object of each kind exists, empty, *)
(* the second is not constructed yet; the thread issues any operations.    *)

NoScript == [n |-> 0, v |-> 0, uploaded |-> FALSE, srcSize |-> 1, dstSize |-> 1]

Init ==
    /\ cont = [c \in Slots |-> IF c \in {"d1", "h1", "p1"} THEN EmptyFields ELSE NoObject]
    /\ heap = [a \in Addrs |-> NoAlloc]
    /\ stream = <<>>
    /\ doubleFree = FALSE
    /\ badAccess = FALSE
    /\ calls = 0
    /\ last = NoCall
    /\ pc = "free"
    /\ script = NoScript

Next ==
    \/ DeviceConstruct \/ DeviceCopyConstruct \/ DeviceMoveConstruct
    \/ DeviceMoveAssign \/ DeviceDestroy \/ DeviceResize \/ DeviceResizeAnew
    \/ DeviceClear \/ DeviceCopy \/ DeviceCopyFromHostBuffer \/ DeviceCopySync
    \/ DeviceCopyFromDevice \/ DeviceCopyFromHost
    \/ HostConstruct \/ HostCopyConstruct \/ HostMoveConstruct
    \/ HostMoveAssign \/ HostDestroy \/ HostResize \/ HostResizeAnew
    \/ HostClear \/ HostCopy \/ HostCopyFromDevice
    \/ PinnedConstruct \/ PinnedCopyConstruct \/ PinnedMoveConstruct
    \/ PinnedMoveAssign \/ PinnedDestroy \/ PinnedResize \/ PinnedResizeAnew
    \/ PinnedDownload \/ PinnedUpload \/ PinnedClear \/ PinnedClearDevice
    \/ PinnedClearHost \/ PinnedCopyFromDeviceBuffer \/ PinnedCopyFromHostBuffer
    \/ PinnedCopy \/ PinnedCopyDeviceOnly \/ PinnedCopySync
    \/ WriteHost \/ StreamExec

Spec == Init /\ [][Next]_vars

-----------------------------------------------------------------------------
(* The growth specification: after some resize calls with the sizes of the *)
(* general specification, one container is resized to any n up to MaxGrowN. *)

GrowSizes == 0..MaxGrowN
MayGrow   == calls <= MaxWarmup /\ calls < MaxCalls /\ pc = "free"
ResizeOp(copy) == IF copy THEN "resize" ELSE "resize_anew"
Grown(S, rec) == Return(S, rec) /\ pc' = "grown" /\ UNCHANGED script

DeviceGrow ==
    /\ MayGrow
    /\ \E c \in DeviceSlots, n \in GrowSizes, copy \in BOOLEAN :
         \E nd \in Choices(cont[c].capacity < n, copy /\ cont[c].capacity < n) :
           /\ Live(c) /\ Room(1)
           /\ Grown(DeviceBuffer__resize(Machine, c, n, copy, nd),
                    Call(ResizeOp(copy), c, "-", n))

HostGrow ==
    /\ MayGrow
    /\ \E c \in HostSlots, n \in GrowSizes, copy \in BOOLEAN :
         \E nd \in Choices(cont[c].capacity < n, FALSE) :
           /\ Live(c) /\ Room(1)
           /\ Grown(HostBuffer__resize(Machine, c, n, copy, nd),
                    Call(ResizeOp(copy), c, "-", n))

PinnedGrow ==
    /\ MayGrow
    /\ \E c \in PinnedSlots, n \in GrowSizes, copy \in BOOLEAN :
         \E nd \in Choices(cont[c].capacity < n, FALSE) :
           /\ Live(c) /\ Room(2)
           /\ Grown(PinnedBuffer__resize(Machine, c, n, copy, nd),
                    Call(ResizeOp(copy), c, "-", n))

NextGrowth ==
    \/ DeviceResize \/ HostResize \/ PinnedResize
    \/ DeviceGrow \/ HostGrow \/ PinnedGrow
    \/ StreamExec

SpecGrowth == Init /\ [][NextGrowth]_vars

-----------------------------------------------------------------------------
(* The round trip specification: a PinnedBuffer of script.n elements is     *)
(* filled on the host side with the values of script.v, uploaded, cleared   *)
(* on the host side and downloaded synchronously, while the device executes *)
(* the stream at its own pace.                                              *)

RoundTripSizes == (1..SmallN) \cup {BigN}

NoMachine == [cont |-> [c \in Slots |-> NoObject], heap |-> [a \in Addrs |-> NoAlloc],
              stream |-> <<>>, doubleFree |-> FALSE, badAccess |-> FALSE, did |-> <<>>]

InitRoundTrip ==
    \E n \in RoundTripSizes, v \in 1..MaxVal, g \in FreshFills :
      \E S \in {PinnedBuffer_ctor(NoMachine, "p1", n, [fill |-> g, stale |-> FALSE, run |-> 0])} :
        /\ cont = S.cont
        /\ heap = S.heap
        /\ stream = S.stream
        /\ doubleFree = S.doubleFree
        /\ badAccess = S.badAccess
        /\ calls = 0
        /\ last = NoCall
        /\ pc = "fill"
        /\ script = [NoScript EXCEPT !.n = n, !.v = v]

RoundTripFill ==
    /\ pc = "fill"
    /\ Return(HostWrite(Machine, "p1", script.v), Call("write", "p1", "-", script.v))
    /\ pc' = "upload"
    /\ UNCHANGED script

RoundTripUpload ==
    /\ pc = "upload"
    /\ Return(PinnedBuffer_uploadToDevice(Machine, "p1"), Call("upload", "p1", "-", 0))
    /\ pc' = "clearHost"
    /\ UNCHANGED script

\* script.uploaded records whether the device had executed the upload by now
RoundTripClearHost ==
    /\ pc = "clearHost"
    /\ Return(PinnedBuffer_clearHost(Machine, "p1"), Call("clearHost", "p1", "-", 0))
    /\ pc' = "download"
    /\ script' = [script EXCEPT !.uploaded = (stream = <<>>)]

RoundTripDownload ==
    /\ pc = "download"
    /\ \E nd \in Choices(FALSE, FALSE) :
          Return(PinnedBuffer_downloadFromDevice(Machine, "p1", TRUE, nd),
                 Call("downloadSynch", "p1", "-", 0))
    /\ pc' = "done"
    /\ UNCHANGED script

NextRoundTrip ==
    \/ RoundTripFill \/ RoundTripUpload \/ RoundTripClearHost \/ RoundTripDownload
    \/ StreamExec

SpecRoundTrip == InitRoundTrip /\ [][NextRoundTrip]_vars

-----------------------------------------------------------------------------
(* The dual specification: PinnedBuffer p1 holds host-written values on its *)
(* host side and kernel-written values on its device side; the thread calls *)
(* every operation on p1 except upload and download, copies into p1 from    *)
(* source buffers and out of p1 into d1 and h1.                             *)

DualSources == {{"p2"}, {"d2", "h2"}}

\* the buffer c constructed with n elements and filled on the sides it has
Filled(S0, c, n, v, w, g) ==
    LET nd == [fill |-> g, stale |-> FALSE, run |-> 0]
    IN  IF Kind(c) = "Pinned"
        THEN DeviceWrite(HostWrite(PinnedBuffer_ctor(S0, c, n, nd), c, v), c, w)
        ELSE IF Kind(c) = "Device" THEN DeviceWrite(DeviceBuffer_ctor(S0, c, n, nd), c, w)
        ELSE HostWrite(HostBuffer_ctor(S0, c, n, nd), c, v)

RECURSIVE FilledAll(_, _, _, _, _, _)
FilledAll(S0, cs, n, v, w, g) ==
    IF cs = {} THEN S0
    ELSE LET c == CHOOSE x \in cs : TRUE
         IN  FilledAll(Filled(S0, c, n, v, w, g), cs \ {c}, n, v, w, g)

InitDual ==
    \E srcs \in DualSources, n \in {SmallN, BigN}, v \in 1..MaxVal, w \in 1..MaxVal,
       g \in FreshFills :
      \E S \in {FilledAll(Filled([NoMachine EXCEPT !.cont["d1"] = EmptyFields,
                                                   !.cont["h1"] = EmptyFields],
                                 "p1", SmallN, v, w, g),
                          srcs, n, PatVal(v, 1), PatVal(w, 1), g)} :
        /\ cont = S.cont
        /\ heap = S.heap
        /\ stream = S.stream
        /\ doubleFree = S.doubleFree
        /\ badAccess = S.badAccess
        /\ calls = 0
        /\ last = NoCall
        /\ pc = "free"
        /\ script = NoScript

\* the calls of the dual specification: on p1, into p1 from a source, out of
\* p1 into d1 or h1
DualStep ==
    \/ last'.c = "p1" /\ last'.b \in {"-", "p1", "p2", "d2", "h2"}
    \/ last'.c \in {"d1", "h1"} /\ last'.b = "p1"

NextDual ==
    \/ PinnedResize /\ DualStep
    \/ PinnedResizeAnew /\ DualStep
    \/ PinnedClear /\ DualStep
    \/ PinnedClearDevice /\ DualStep
    \/ PinnedClearHost /\ DualStep
    \/ PinnedCopyFromDeviceBuffer /\ DualStep
    \/ PinnedCopyFromHostBuffer /\ DualStep
    \/ PinnedCopy /\ DualStep
    \/ PinnedCopyDeviceOnly /\ DualStep
    \/ PinnedCopySync /\ DualStep
    \/ DeviceCopyFromDevice /\ DualStep
    \/ DeviceCopyFromHost /\ DualStep
    \/ HostCopy /\ DualStep
    \/ HostCopyFromDevice /\ DualStep
    \/ WriteHost /\ DualStep
    \/ WriteDevice /\ DualStep
    \/ StreamExec

SpecDual == InitDual /\ [][NextDual]_vars

-----------------------------------------------------------------------------
(* The host copy specification: filled source buffers exist, whose elements *)
(* are script.srcSize bytes when seen through GPUcontainer; HostBuffer h1   *)
(* has elements of script.dstSize bytes; the thread calls the copies of     *)
(* HostBuffer.                                                              *)

ElemSizes == 1..MaxElemSize

InitHostCopy ==
    \E srcs \in DualSources, n \in Sizes, k \in {0, SmallN}, v \in 1..MaxVal,
       srcSize \in ElemSizes, dstSize \in ElemSizes :
      \E S \in {FilledAll(Filled(NoMachine, "h1", k, v, v, 0), srcs, n,
                          PatVal(v, 1), v, 0)} :
        /\ cont = S.cont
        /\ heap = S.heap
        /\ stream = S.stream
        /\ doubleFree = S.doubleFree
        /\ badAccess = S.badAccess
        /\ calls = 0
        /\ last = NoCall
        /\ pc = "free"
        /\ script = [NoScript EXCEPT !.srcSize = srcSize, !.dstSize = dstSize]

\* the number of host elements one source element fills
typeSizeFactor == script.srcSize \div script.dstSize

Died(S) == \E i \in 1..Len(S.did) : S.did[i] = "die"

HostGenericCopy ==
    /\ MayCall
    /\ \E c \in HostSlots, b \in DeviceSlots \cup PinnedSlots :
         \E nd \in Choices(cont[c].capacity < cont[b].size * typeSizeFactor, FALSE) :
           /\ Live(c) /\ Live(b) /\ Room(1)
           /\ \E S \in {HostBuffer_genericCopy(Machine, c, b, script.srcSize,
                                               script.dstSize, nd)} :
                 /\ Return(S, Call("genericCopy", c, b, 0))
                 /\ pc' = IF Died(S) THEN "fatal" ELSE pc
           /\ UNCHANGED script

NextHostCopy ==
    \/ HostCopy \/ HostCopyFromDevice \/ HostGenericCopy
    \/ StreamExec

SpecHostCopy == InitHostCopy /\ [][NextHostCopy]_vars

-----------------------------------------------------------------------------
(* The moved-from specification: one container of some kind holds elements, *)
(* its sibling is absent, empty or filled, and the first slot of every      *)
(* other kind is constructed empty.  The first call moves the filled        *)
(* container into its sibling; the thread then constructs, resizes, clears, *)
(* copies into, moves into and destroys containers.                         *)

MovedSources == {"d2", "h2", "p2"}
Sibling(c)   == IF c = "d2" THEN "d1" ELSE IF c = "h2" THEN "h1" ELSE "p1"

InitMovedFrom ==
    \E b \in MovedSources, n \in {SmallN, BigN}, v \in 1..MaxVal,
       dest \in {"absent", "empty", "filled"} :
      \E S0 \in {[NoMachine EXCEPT !.cont["d1"] = EmptyFields, !.cont["h1"] = EmptyFields,
                                   !.cont["p1"] = EmptyFields]} :
      \E S1 \in {IF dest = "absent" THEN [S0 EXCEPT !.cont[Sibling(b)] = NoObject]
                 ELSE IF dest = "filled" THEN Filled(S0, Sibling(b), SmallN, v, v, 0)
                 ELSE S0} :
      \E S \in {Filled(S1, b, n, PatVal(v, 1), PatVal(v, 1), 0)} :
        /\ cont = S.cont
        /\ heap = S.heap
        /\ stream = S.stream
        /\ doubleFree = S.doubleFree
        /\ badAccess = S.badAccess
        /\ calls = 0
        /\ last = NoCall
        /\ pc = "free"
        /\ script = NoScript

\* the first call moves the filled container into its sibling
MovedStep == calls = 0 => (last'.op \in {"moveAssign", "moveCtor"} /\ last'.b \in MovedSources
                           /\ last'.c # last'.b)

NextMovedFrom ==
    \/ DeviceMoveConstruct /\ MovedStep
    \/ DeviceMoveAssign /\ MovedStep
    \/ HostMoveConstruct /\ MovedStep
    \/ HostMoveAssign /\ MovedStep
    \/ PinnedMoveConstruct /\ MovedStep
    \/ PinnedMoveAssign /\ MovedStep
    \/ DeviceConstruct /\ MovedStep
    \/ HostConstruct /\ MovedStep
    \/ PinnedConstruct /\ MovedStep
    \/ DeviceResize /\ MovedStep
    \/ HostResize /\ MovedStep
    \/ PinnedResize /\ MovedStep
    \/ DeviceResizeAnew /\ MovedStep
    \/ HostResizeAnew /\ MovedStep
    \/ PinnedResizeAnew /\ MovedStep
    \/ DeviceClear /\ MovedStep
    \/ HostClear /\ MovedStep
    \/ PinnedClear /\ MovedStep
    \/ DeviceCopy /\ MovedStep
    \/ HostCopy /\ MovedStep
    \/ PinnedCopy /\ MovedStep
    \/ DeviceDestroy /\ MovedStep
    \/ HostDestroy /\ MovedStep
    \/ PinnedDestroy /\ MovedStep
    \/ StreamExec

SpecMovedFrom == InitMovedFrom /\ [][NextMovedFrom]_vars

-----------------------------------------------------------------------------
(* The lifecycle specification: a DeviceBuffer and a PinnedBuffer side by   *)
(* side.  Each call on DeviceBuffer d1 or d2 (construct, resize, copy, move *)
(* construct, move assign, destroy) is followed by the same call with the   *)
(* same arguments on the PinnedBuffer p1 or p2 that stands beside it.       *)

MaxPairs == 3

Twin(c) == IF c = "d1" THEN "p1" ELSE IF c = "d2" THEN "p2" ELSE c

InitLifecycle ==
    /\ cont = [c \in Slots |-> IF c \in {"d1", "p1"} THEN EmptyFields ELSE NoObject]
    /\ heap = [a \in Addrs |-> NoAlloc]
    /\ stream = <<>>
    /\ doubleFree = FALSE
    /\ badAccess = FALSE
    /\ calls = 0
    /\ last = NoCall
    /\ pc = "free"
    /\ script = NoScript

MayPair == pc = "free" /\ calls < 2 * MaxPairs

\* the call on the DeviceBuffer returns: the same call on its twin is next
Paired(S, rec)  == Return(S, rec) /\ pc' = "twin" /\ UNCHANGED script
\* the call on the PinnedBuffer returns
Twinned(S, rec) == Return(S, rec) /\ pc' = "free" /\ UNCHANGED script

LifecycleConstruct ==
    /\ MayPair
    /\ \E c \in DeviceSlots, n \in Sizes :
         \E nd \in Choices(n > 0, FALSE) :
           /\ ~Live(c) /\ Room(3)
           /\ Paired(DeviceBuffer_ctor(Machine, c, n, nd), Call("ctor", c, "-", n))

LifecycleResize ==
    /\ MayPair
    /\ \E c \in DeviceSlots, n \in Sizes :
         \E nd \in Choices(cont[c].capacity < n, cont[c].capacity < n) :
           /\ Live(c) /\ Room(3)
           /\ Paired(DeviceBuffer_resize(Machine, c, n, nd), Call("resize", c, "-", n))

LifecycleCopy ==
    /\ MayPair
    /\ \E c \in DeviceSlots, b \in DeviceSlots :
         \E nd \in Choices(cont[c].capacity < cont[b].size, FALSE) :
           /\ Live(c) /\ Live(b) /\ Room(3)
           /\ Paired(DeviceBuffer_copyDev(Machine, c, b, nd), Call("copy", c, b, 0))

LifecycleMoveConstruct ==
    /\ MayPair
    /\ \E c \in DeviceSlots, b \in DeviceSlots :
           /\ ~Live(c) /\ Live(b) /\ Room(3)
           /\ Paired(DeviceBuffer_moveCtor(Machine, c, b), Call("moveCtor", c, b, 0))

LifecycleMoveAssign ==
    /\ MayPair
    /\ \E c \in DeviceSlots, b \in DeviceSlots :
           /\ Live(c) /\ Live(b) /\ Room(3)
           /\ Paired(DeviceBuffer_moveAssign(Machine, c, b), Call("moveAssign", c, b, 0))

LifecycleDestroy ==
    /\ MayPair
    /\ \E c \in DeviceSlots :
           /\ Live(c) /\ Room(3)
           /\ Paired(DeviceBuffer_dtor(Machine, c), Call("dtor", c, "-", 0))

TwinConstruct ==
    /\ pc = "twin" /\ last.op = "ctor"
    /\ \E nd \in Choices(last.n > 0, FALSE) :
           Twinned(PinnedBuffer_ctor(Machine, Twin(last.c), last.n, nd),
                   Call("ctor", Twin(last.c), "-", last.n))

TwinResize ==
    /\ pc = "twin" /\ last.op = "resize"
    /\ \E nd \in Choices(cont[Twin(last.c)].capacity < last.n, FALSE) :
           Twinned(PinnedBuffer_resize(Machine, Twin(last.c), last.n, nd),
                   Call("resize", Twin(last.c), "-", last.n))

TwinCopy ==
    /\ pc = "twin" /\ last.op = "copy"
    /\ \E nd \in Choices(cont[Twin(last.c)].capacity < cont[Twin(last.b)].size, FALSE) :
           Twinned(PinnedBuffer_copyPinned(Machine, Twin(last.c), Twin(last.b), nd),
                   Call("copy", Twin(last.c), Twin(last.b), 0))

TwinMoveConstruct ==
    /\ pc = "twin" /\ last.op = "moveCtor"
    /\ Twinned(PinnedBuffer_moveCtor(Machine, Twin(last.c), Twin(last.b)),
               Call("moveCtor", Twin(last.c), Twin(last.b), 0))

TwinMoveAssign ==
    /\ pc = "twin" /\ last.op = "moveAssign"
    /\ Twinned(PinnedBuffer_moveAssign(Machine, Twin(last.c), Twin(last.b)),
               Call("moveAssign", Twin(last.c), Twin(last.b), 0))

TwinDestroy ==
    /\ pc = "twin" /\ last.op = "dtor"
    /\ Twinned(PinnedBuffer_dtor(Machine, Twin(last.c)),
               Call("dtor", Twin(last.c), "-", 0))

NextLifecycle ==
    \/ LifecycleConstruct \/ LifecycleResize \/ LifecycleCopy
    \/ LifecycleMoveConstruct \/ LifecycleMoveAssign \/ LifecycleDestroy
    \/ TwinConstruct \/ TwinResize \/ TwinCopy
    \/ TwinMoveConstruct \/ TwinMoveAssign \/ TwinDestroy
    \/ StreamExec

SpecLifecycle == InitLifecycle /\ [][NextLifecycle]_vars

-----------------------------------------------------------------------------
(* The device copy specification: DeviceBuffer d2 holds values a kernel     *)
(* wrote, DeviceBuffer d1 is empty or holds other values; the thread copies *)
(* between them, clears, resizes and lets kernels write.                    *)

InitDeviceCopy ==
    \E n \in Sizes, k \in Sizes, w \in 1..MaxVal, g \in FreshFills :
      \E S \in {Filled(Filled(NoMachine, "d1", k, w, PatVal(w, 1), g), "d2", n, w, w, g)} :
        /\ cont = S.cont
        /\ heap = S.heap
        /\ stream = S.stream
        /\ doubleFree = S.doubleFree
        /\ badAccess = S.badAccess
        /\ calls = 0
        /\ last = NoCall
        /\ pc = "free"
        /\ script = NoScript

NextDeviceCopy ==
    \/ DeviceCopy \/ DeviceCopySync \/ DeviceClear \/ DeviceResize
    \/ WriteDevice \/ StreamExec

SpecDeviceCopy == InitDeviceCopy /\ [][NextDeviceCopy]_vars

-----------------------------------------------------------------------------
(* The pinned copy specification: from the initial states of the dual       *)
(* specification, with different values on the two sides of each            *)
(* PinnedBuffer, the thread copies PinnedBuffers into PinnedBuffers, with   *)
(* uploads, downloads and host writes before and after.                     *)

NextPinnedCopy ==
    \/ PinnedCopy \/ PinnedCopySync \/ PinnedDownload \/ PinnedUpload
    \/ WriteHost \/ StreamExec

SpecPinnedCopy == InitDual /\ [][NextPinnedCopy]_vars

-----------------------------------------------------------------------------
(* The chain specification: PinnedBuffer p1 starts empty, DeviceBuffer d1   *)
(* and PinnedBuffer p2 start empty or holding other values.  The thread     *)
(* resizes p1 to script.n, writes its host side, uploads, copies p1's       *)
(* device side into d1, copies d1 into p2 and downloads p2 synchronously,   *)
(* all on the one stream, while the device executes at its own pace.        *)

InitChain ==
    \E n \in Sizes, v \in 1..MaxVal, dfilled \in BOOLEAN, qfilled \in BOOLEAN, g \in FreshFills :
      \E S0 \in {[NoMachine EXCEPT !.cont["p1"] = EmptyFields, !.cont["d1"] = EmptyFields,
                                   !.cont["p2"] = EmptyFields]} :
      \E S1 \in {IF dfilled THEN Filled(S0, "d1", SmallN, v, PatVal(v, 1), g) ELSE S0} :
      \E S \in {IF qfilled THEN Filled(S1, "p2", BigN, PatVal(v, 1), PatVal(v, 1), g) ELSE S1} :
        /\ cont = S.cont
        /\ heap = S.heap
        /\ stream = S.stream
        /\ doubleFree = S.doubleFree
        /\ badAccess = S.badAccess
        /\ calls = 0
        /\ last = NoCall
        /\ pc = "resize"
        /\ script = [NoScript EXCEPT !.n = n, !.v = v]

ChainResize ==
    /\ pc = "resize"
    /\ \E nd \in Choices(script.n > 0, FALSE) :
          Return(PinnedBuffer_resize(Machine, "p1", script.n, nd),
                 Call("resize", "p1", "-", script.n))
    /\ pc' = "write"
    /\ UNCHANGED script

ChainWrite ==
    /\ pc = "write"
    /\ Return(HostWrite(Machine, "p1", script.v), Call("write", "p1", "-", script.v))
    /\ pc' = "upload"
    /\ UNCHANGED script

ChainUpload ==
    /\ pc = "upload"
    /\ Return(PinnedBuffer_uploadToDevice(Machine, "p1"), Call("upload", "p1", "-", 0))
    /\ pc' = "copyToDevice"
    /\ UNCHANGED script

ChainCopyToDevice ==
    /\ pc = "copyToDevice"
    /\ \E nd \in Choices(cont["d1"].capacity < cont["p1"].size, FALSE) :
          Return(DeviceBuffer_copyFromDevice(Machine, "d1", "p1", nd),
                 Call("copyFromDevice", "d1", "p1", 0))
    /\ pc' = "copyToPinned"
    /\ UNCHANGED script

ChainCopyToPinned ==
    /\ pc = "copyToPinned"
    /\ \E nd \in Choices(cont["p2"].capacity < cont["d1"].size, FALSE) :
          Return(PinnedBuffer_copyDevice(Machine, "p2", "d1", nd),
                 Call("copy", "p2", "d1", 0))
    /\ pc' = "download"
    /\ UNCHANGED script

ChainDownload ==
    /\ pc = "download"
    /\ \E nd \in Choices(FALSE, FALSE) :
          Return(PinnedBuffer_downloadFromDevice(Machine, "p2", TRUE, nd),
                 Call("downloadSynch", "p2", "-", 0))
    /\ pc' = "done"
    /\ UNCHANGED script

NextChain ==
    \/ ChainResize \/ ChainWrite \/ ChainUpload \/ ChainCopyToDevice
    \/ ChainCopyToPinned \/ ChainDownload \/ StreamExec

SpecChain == InitChain /\ [][NextChain]_vars

-----------------------------------------------------------------------------
(* The failure specification: the thread resizes DeviceBuffers and          *)
(* PinnedBuffers, and a runtime call inside _resize may report an error.    *)
(* fail names the checked call that does: 0 none, otherwise the first, the  *)
(* second, ... CUDA_Check of an allocation or a transfer that is reached.   *)

\* the runtime call returns an error code instead of doing its work
Error(S, call) == Did(Did(S, call), "error")

\* CUDA_Check(call): the process ends when the call has reported an error
CUDA_Check(S) ==
    IF S.did # <<>> /\ S.did[Len(S.did)] = "error" THEN die(S) ELSE S

\* a _resize that allocates again when cudaMalloc has reported an error
DeviceBuffer__resize_retrying(S0, c, n, copy, nd, fail) ==
    One({ IF S.cont[c].capacity >= n THEN [S EXCEPT !.cont[c].size = n]
          ELSE IF fail = 1
               THEN DeviceBuffer__grow(Error(S, "cudaMalloc"), c, n, copy, nd)
               ELSE DeviceBuffer__grow(S, c, n, copy, nd)
          : S \in {S0} })

\* DeviceBuffer::_resize with the outcome of each CUDA_Check:
\* _size = n; capacity = ...; CUDA_Check(cudaMalloc(...));
\* if (copy && dold != nullptr && oldsize > 0) CUDA_Check(cudaMemcpyAsync(...));
\* CUDA_Check(cudaFree(dold))
DeviceBuffer__resize_checked(S0, c, n, copy, nd, fail) ==
    One({ IF S.cont[c].capacity >= n THEN [S EXCEPT !.cont[c].size = n]
          ELSE LET dold    == S.cont[c].devptr
                   oldsize == S.cont[c].size
                   cp      == DeviceBuffer_newCapacity(n)
                   S1      == [S EXCEPT !.cont[c].size = n, !.cont[c].capacity = cp]
                   S2      == [Malloc(S1, "device", cp, nd.fill) EXCEPT
                                  !.cont[c].devptr = NewAddr(S1)]
                   docopy  == copy /\ dold # nullptr /\ oldsize > 0
                   S3      == IF docopy THEN Enqueue(S2, MemcpyOp(NewAddr(S1), dold, oldsize))
                              ELSE S2
               IN  IF fail = 1 THEN CUDA_Check(Error(S1, "cudaMalloc"))
                   ELSE IF fail = 2 /\ docopy THEN CUDA_Check(Error(S2, "enqueue"))
                   ELSE Free(RunStream(S3, nd.run, nd.stale), dold)
          : S \in {S0} })

\* PinnedBuffer::_resize with the outcome of each CUDA_Check:
\* _size = n; capacity = ...; CUDA_Check(cudaHostAlloc(...)); CUDA_Check(cudaMalloc(...));
\* in the preserving branch memcpy, CUDA_Check(cudaMemcpyAsync(...)),
\* CUDA_Check(cudaStreamSynchronize(stream)); then the two frees
PinnedBuffer__resize_checked(S0, c, n, copy, nd, fail) ==
    One({ IF S.cont[c].capacity >= n THEN [S EXCEPT !.cont[c].size = n]
          ELSE LET hold    == S.cont[c].hostptr
                   dold    == S.cont[c].devptr
                   oldsize == S.cont[c].size
                   cp      == PinnedBuffer_newCapacity(n)
                   S1      == [S EXCEPT !.cont[c].size = n, !.cont[c].capacity = cp]
                   S2      == [Malloc(S1, "host", cp, nd.fill) EXCEPT
                                  !.cont[c].hostptr = NewAddr(S1)]
                   S3      == [Malloc(S2, "device", cp, nd.fill) EXCEPT
                                  !.cont[c].devptr = NewAddr(S2)]
                   docopy  == copy /\ hold # nullptr /\ oldsize > 0
                   S4      == Memcpy(S3, NewAddr(S1), hold, oldsize, nd.stale)
               IN  IF fail = 1 THEN CUDA_Check(Error(S1, "cudaHostAlloc"))
                   ELSE IF fail = 2 THEN CUDA_Check(Error(S2, "cudaMalloc"))
                   ELSE IF fail = 3 /\ docopy THEN CUDA_Check(Error(S4, "enqueue"))
                   ELSE Free(Free(IF docopy
                                  THEN cudaStreamSynchronize(
                                           Enqueue(S4, MemcpyOp(NewAddr(S2), dold, oldsize)),
                                           nd.stale)
                                  ELSE S3,
                                  hold), dold)
          : S \in {S0} })

\* the call returns, or has ended the process
Checked(S, rec) ==
    /\ Return(S, rec)
    /\ pc' = IF Died(S) THEN "fatal" ELSE pc
    /\ UNCHANGED script

DeviceResizeChecked ==
    /\ MayCall
    /\ \E c \in DeviceSlots, n \in Sizes, copy \in BOOLEAN, fail \in 0..2 :
         \E nd \in Choices(cont[c].capacity < n, copy /\ cont[c].capacity < n) :
           /\ Live(c) /\ Room(1)
           /\ Checked(DeviceBuffer__resize_checked(Machine, c, n, copy, nd, fail),
                      Call(ResizeOp(copy), c, "-", n))

PinnedResizeChecked ==
    /\ MayCall
    /\ \E c \in PinnedSlots, n \in Sizes, copy \in BOOLEAN, fail \in 0..3 :
         \E nd \in Choices(cont[c].capacity < n, FALSE) :
           /\ Live(c) /\ Room(2)
           /\ Checked(PinnedBuffer__resize_checked(Machine, c, n, copy, nd, fail),
                      Call(ResizeOp(copy), c, "-", n))

NextFailure == DeviceResizeChecked \/ PinnedResizeChecked \/ StreamExec

SpecFailure == Init /\ [][NextFailure]_vars

-----------------------------------------------------------------------------
(* The produce specification: containers are resized, written, uploaded and *)
(* cleared, and produce() is called on them; r is the object that "new"     *)
(* creates, a slot outside its lifetime.                                    *)

\* a produce() that returns a copy of the receiver
DeviceBuffer_produce_clone(S, c, r, nd) == DeviceBuffer_copyCtor(S, r, c, nd)

\* produce() const { return new DeviceBuffer<T>(); }
DeviceBuffer_produce(S, c, r, nd) == DeviceBuffer_ctor(S, r, 0, nd)

\* produce() const { return new PinnedBuffer<T>(); }
PinnedBuffer_produce(S, c, r, nd) == PinnedBuffer_ctor(S, r, 0, nd)

DeviceProduce ==
    /\ MayCall
    /\ \E c \in DeviceSlots, r \in DeviceSlots : \E nd \in Choices(FALSE, FALSE) :
           /\ Live(c) /\ ~Live(r)
           /\ Commit(DeviceBuffer_produce(Machine, c, r, nd), Call("produce", c, r, 0))

PinnedProduce ==
    /\ MayCall
    /\ \E c \in PinnedSlots, r \in PinnedSlots : \E nd \in Choices(FALSE, FALSE) :
           /\ Live(c) /\ ~Live(r)
           /\ Commit(PinnedBuffer_produce(Machine, c, r, nd), Call("produce", c, r, 0))

NextProduce ==
    \/ DeviceProduce \/ PinnedProduce \/ DeviceResize \/ PinnedResize
    \/ DeviceClear \/ PinnedUpload \/ WriteHost \/ WriteDevice \/ StreamExec

SpecProduce == Init /\ [][NextProduce]_vars

-----------------------------------------------------------------------------
(* The teardown specification: two containers of one kind exist, each       *)
(* empty or filled; the thread resizes them, move-assigns one onto the      *)
(* other and destroys them.                                                 *)

InitTeardown ==
    \E pair \in {<<"d1", "d2">>, <<"h1", "h2">>, <<"p1", "p2">>}, k \in Sizes, n \in Sizes,
       v \in 1..MaxVal, g \in FreshFills :
      \E S \in {Filled(Filled(NoMachine, pair[1], k, v, v, g), pair[2], n, v, v, g)} :
        /\ cont = S.cont
        /\ heap = S.heap
        /\ stream = S.stream
        /\ doubleFree = S.doubleFree
        /\ badAccess = S.badAccess
        /\ calls = 0
        /\ last = NoCall
        /\ pc = "free"
        /\ script = NoScript

NextTeardown ==
    \/ DeviceMoveAssign \/ HostMoveAssign \/ PinnedMoveAssign
    \/ DeviceDestroy \/ HostDestroy \/ PinnedDestroy
    \/ DeviceResize \/ HostResize \/ PinnedResize
    \/ StreamExec

SpecTeardown == InitTeardown /\ [][NextTeardown]_vars

\* ---------------------------------------------------------------------------
\* Ownership and structural invariants
\* ---------------------------------------------------------------------------

Moves    == {"moveAssign", "moveCtor"}
Resizes  == {"resize", "resize_anew"}
Returned == calls' = calls + 1

\* the allocations a container holds
OwnedPointers(c) == {cont[c].devptr, cont[c].hostptr} \ {nullptr}

\* C1: every allocation is owned by exactly one container: no two live
\* containers hold the same non-null pointer, a live container never holds a
\* pointer to an allocation that has been freed, and no allocation is freed twice
C1_ExclusiveOwnership ==
    /\ ~doubleFree
    /\ \A c \in Slots : Live(c) =>
          /\ \A a \in OwnedPointers(c) : heap[a].state = "live"
          /\ cont[c].devptr # nullptr => cont[c].devptr # cont[c].hostptr
    /\ \A c, e \in Slots :
          (Live(c) /\ Live(e) /\ c # e) => OwnedPointers(c) \cap OwnedPointers(e) = {}

\* a move assignment onto a container that had storage from one that has storage
C1_Witness ==
    /\ last.op = "moveAssign" /\ last.c # last.b
    /\ last.old.capacity > 0 /\ last.oldb.capacity > 0
    /\ Live(last.c) /\ Live(last.b)

\* C2: after a move from A into a distinct B, B has the size, the capacity and
\* the pointers A had, A has size 0, capacity 0 and null pointers, and
\* destroying A afterwards frees nothing
C2_MovePost ==
    (last.op \in Moves /\ last.c # last.b) =>
        /\ cont[last.c].size     = last.oldb.size
        /\ cont[last.c].capacity = last.oldb.capacity
        /\ cont[last.c].devptr   = last.oldb.devptr
        /\ cont[last.c].hostptr  = last.oldb.hostptr
        /\ cont[last.b] = EmptyFields

C2_DestroyEmptied ==
    (Returned /\ last'.op = "dtor" /\ cont[last'.c] = EmptyFields) => heap' = heap

C2_MoveLeavesSourceEmpty == [](C2_MovePost) /\ [][C2_DestroyEmptied]_vars

\* a move construction from a container that holds elements
C2_Witness ==
    /\ last.op = "moveCtor" /\ last.c # last.b
    /\ last.oldb.size > 0 /\ last.oldb.capacity > 0
    /\ Live(last.c) /\ Live(last.b)

\* C3: the size of a live container never exceeds its capacity
C3_SizeWithinCapacity ==
    \A c \in Slots : Live(c) => cont[c].size <= cont[c].capacity

\* a resize has reallocated a container that had storage
C3_Witness ==
    /\ last.op \in Resizes /\ last.old.capacity > 0 /\ last.n > last.old.capacity
    /\ cont[last.c].size = last.n

\* C4: capacity is 0 exactly when the storage pointer is null; a PinnedBuffer
\* has both pointers null or both non-null
C4_CapacityZeroIffNull ==
    \A c \in Slots : Live(c) =>
        /\ Kind(c) = "Device" => (cont[c].capacity = 0 <=> cont[c].devptr = nullptr)
        /\ Kind(c) = "Host"   => (cont[c].capacity = 0 <=> cont[c].hostptr = nullptr)
        /\ Kind(c) = "Pinned" =>
              /\ cont[c].capacity = 0 <=> cont[c].hostptr = nullptr
              /\ cont[c].hostptr = nullptr <=> cont[c].devptr = nullptr

\* a PinnedBuffer with storage next to one that a move has emptied
C4_Witness ==
    /\ last.op \in Moves /\ Kind(last.c) = "Pinned" /\ last.c # last.b
    /\ cont[last.c].capacity > 0 /\ cont[last.c].devptr # nullptr
    /\ cont[last.b].capacity = 0 /\ cont[last.b].hostptr = nullptr

MovedIn(c) == Returned /\ last'.op \in Moves /\ c \in {last'.c, last'.b}

\* C5: no operation other than a move lowers the capacity of a container; a
\* move gives the destination the capacity of the source, whatever it had
\* before, and leaves the source with capacity 0
C5_CapacityStep ==
    \A c \in Slots : (Live(c) /\ cont'[c].live /\ ~MovedIn(c)) =>
        cont'[c].capacity >= cont[c].capacity

C5_MoveStep ==
    (Returned /\ last'.op \in Moves /\ last'.c # last'.b) =>
        /\ cont'[last'.c].capacity = cont[last'.b].capacity
        /\ cont'[last'.b].capacity = 0

ExactEstimate(n) == (11 * n + 100 + 9) \div 10

\* the last call was a resize that had to reallocate
Reallocated == last.op \in Resizes /\ last.n > last.old.capacity

\* C6 as stated: a reallocating resize to n leaves capacity
\* align_up(ceil(1.1 * n + 10))
C6_Original ==
    Reallocated => cont[last.c].capacity = AlignUp(ExactEstimate(last.n))

\* C6: a reallocating resize to n, preserve or discard, on any of the three
\* kinds and whatever the capacity was, leaves a capacity that is a multiple
\* of 128, at least n, and equal to align_up(e) where e is ceil(1.1 * n + 10)
\* or, only when n is a multiple of 10 (1.1 * n + 10 is then an integer and
\* the double product lies just above it), one more than that
C6_CapacityFormula ==
    Reallocated =>
        LET cap == cont[last.c].capacity
            e   == ExactEstimate(last.n)
        IN  /\ cap \in {AlignUp(e), AlignUp(e + 1)}
            /\ last.n % 10 # 0 => cap = AlignUp(e)
            /\ cap % Granularity = 0
            /\ cap >= last.n

\* a container that had storage was reallocated for an n where the double
\* estimate exceeds the exact one and crosses a multiple of 128
C6_Witness ==
    /\ Reallocated /\ last.old.capacity > 0
    /\ cont[last.c].capacity = AlignUp(ExactEstimate(last.n) + 1)
    /\ cont[last.c].capacity # AlignUp(ExactEstimate(last.n))

\* C7: a resize never lowers the capacity; it changes the allocation only when
\* the request exceeds the capacity, and then the new capacity is at least
\* 1.1 times the old one plus 10 and exceeds the request, so that the next
\* request for one more element does not reallocate
C7_GrowthStep ==
    (Returned /\ last'.op \in Resizes) =>
        LET c == last'.c
            n == last'.n
        IN  /\ cont'[c].capacity >= cont[c].capacity
            /\ (cont'[c].capacity # cont[c].capacity
                  \/ cont'[c].devptr # cont[c].devptr
                  \/ cont'[c].hostptr # cont[c].hostptr) =>
                    /\ n > cont[c].capacity
                    /\ 10 * cont'[c].capacity >= 11 * cont[c].capacity + 100
                    /\ cont'[c].capacity > n
            /\ n <= cont[c].capacity => cont'[c] = [cont[c] EXCEPT !.size = n]

C7_GeometricGrowth == [][C7_GrowthStep]_vars

\* a full container was asked for one more element and reallocated
C7_Witness ==
    /\ Reallocated /\ last.old.capacity > 0
    /\ last.n = last.old.capacity + 1
    /\ cont[last.c].capacity > last.n

\* ---------------------------------------------------------------------------
\* Contents: preserve resize and the round trip
\* ---------------------------------------------------------------------------

\* the first k elements of sequence s
FirstK(s, k) == IF k = 0 THEN <<>> ELSE SubSeq(s, 1, k)

\* the last call was resize (preserve), nothing was pending at the call and
\* everything enqueued since has executed
ResizeSettled == last.op = "resize" /\ last.quiet /\ stream = <<>>

Kept(c) == Min(last.old.size, cont[c].size)

\* C8 as stated: after resize (preserve) to n on any container, once the
\* stream has executed, the first min(old size, n) elements hold the values
\* they held before the call
C8_Original ==
    ResizeSettled =>
        /\ Kind(last.c) # "Host" =>
              FirstK(DevSide(last.c), Kept(last.c)) = FirstK(last.oldDev, Kept(last.c))
        /\ Kind(last.c) # "Device" =>
              FirstK(HostSide(last.c), Kept(last.c)) = FirstK(last.oldHost, Kept(last.c))

\* the same with the reallocating resize of a DeviceBuffer left out
C8_PreservedElsewhere ==
    (ResizeSettled /\ ~(Kind(last.c) = "Device" /\ last.n > last.old.capacity)) =>
        /\ Kind(last.c) # "Host" =>
              FirstK(DevSide(last.c), Kept(last.c)) = FirstK(last.oldDev, Kept(last.c))
        /\ Kind(last.c) # "Device" =>
              FirstK(HostSide(last.c), Kept(last.c)) = FirstK(last.oldHost, Kept(last.c))

\* the copy DeviceBuffer::_resize enqueues from the old allocation into the new one
PreserveCopy == MemcpyOp(cont[last.c].devptr, last.old.devptr, last.old.size)

\* C9 as stated: after a reallocating resize (preserve) of a DeviceBuffer that
\* held elements, the old allocation is never freed while the copy out of it
\* is still pending on the stream
C9_Original ==
    (/\ last.op = "resize" /\ Kind(last.c) = "Device"
     /\ last.n > last.old.capacity /\ last.old.size > 0)
        => ~(/\ \E i \in 1..Len(stream) : stream[i] = PreserveCopy
             /\ heap[last.old.devptr].state = "freed")

\* C10 as stated: when the round trip is done the host side holds the values
\* it was filled with, however the device interleaved with the thread
C10_Original ==
    pc = "done" => HostSide("p1") = Pattern(script.v, script.n)

\* C10: when the round trip is done, the host side holds the values it was
\* filled with if the device had executed the upload when clearHost() was
\* called, and zeros if the upload was still pending then
C10_RoundTrip ==
    pc = "done" =>
        /\ stream = <<>>
        /\ cont["p1"].size = script.n
        /\ HostSide("p1") = IF script.uploaded THEN Pattern(script.v, script.n)
                            ELSE Const(0, script.n)

\* a round trip of a buffer that needed more than one granule, with the upload
\* executed before clearHost(), is done and has reproduced the values
C10_Witness ==
    /\ pc = "done" /\ script.uploaded /\ script.n = BigN
    /\ last.op = "downloadSynch"
    /\ HostSide("p1") = Pattern(script.v, BigN)

\* ---------------------------------------------------------------------------
\* The stream and the calls
\* ---------------------------------------------------------------------------

\* the allocations c held before the last call and no longer holds
Dropped == ({last.old.devptr, last.old.hostptr} \ {nullptr}) \ OwnedPointers(last.c)

\* the last call was a resize or a copy that reallocated the container
ResizeFreed(a) ==
    /\ last.op \notin (Moves \cup {"dtor", "none"})
    /\ Live(last.c)
    /\ a \in Dropped
    /\ heap[a].state = "freed"

\* the operation was on the stream before the last call: the call's own
\* operations write the allocation it has just made
EnqueuedBefore(op) ==
    op.dst \notin (OwnedPointers(last.c) \ {last.old.devptr, last.old.hostptr})

\* C11 as stated: with one stream for everything, no operation enqueued on the
\* stream is still to execute against an allocation that a reallocating
\* resize, called later directly or inside a copy, has freed
C11_Original ==
    \A i \in 1..Len(stream) :
        EnqueuedBefore(stream[i]) =>
            \A a \in {stream[i].dst, stream[i].src} \ {nullptr} : ~ResizeFreed(a)

\* after downloadFromDevice(stream, Synch) nothing is pending and the host
\* side equals the device side
C12_SynchReturned ==
    last.op = "downloadSynch" =>
        /\ stream = <<>>
        /\ HostSide(last.c) = DevSide(last.c)

\* downloadFromDevice(stream, Asynch) enqueues the transfer and touches
\* nothing else
C12_AsynchStep ==
    (Returned /\ last'.op = "downloadAsynch") =>
        LET c == last'.c
        IN  /\ cont' = cont
            /\ heap' = heap
            /\ stream' = IF cont[c].size = 0 THEN stream
                         ELSE Append(stream, MemcpyOp(cont[c].hostptr, cont[c].devptr,
                                                      cont[c].size))

\* C12: when downloadFromDevice(stream, Synch) returns, everything enqueued
\* before, the transfer included, has executed and the first size elements of
\* the host side equal the device side; with Asynch the call only enqueues the
\* transfer
C12_DownloadSynchronisation == [](C12_SynchReturned) /\ [][C12_AsynchStep]_vars

\* a synchronous download of a non-empty buffer has returned, called while
\* other work was pending on the stream
C12_Witness ==
    /\ last.op = "downloadSynch" /\ ~last.quiet
    /\ cont[last.c].size > 0
    /\ stream = <<>>

\* ---------------------------------------------------------------------------
\* The two sides of a PinnedBuffer
\* ---------------------------------------------------------------------------

HostWritten   == 1..MaxVal
DeviceWritten == {0 - x : x \in 1..MaxVal}

\* the values an allocation holds anywhere
Holds(a) == {heap[a].fill} \cup {heap[a].data[i] : i \in 1..Len(heap[a].data)}

\* C13: as long as no upload and no download is called, resize, resize_anew,
\* clear, clearDevice, clearHost and the copies into and out of a
\* PinnedBuffer leave its device side free of the values written to its host
\* side and its host side free of the values written to its device side
C13_SidesIndependent ==
    \A c \in PinnedSlots : (Live(c) /\ cont[c].devptr # nullptr) =>
        /\ Holds(cont[c].devptr) \cap HostWritten = {}
        /\ Holds(cont[c].hostptr) \cap DeviceWritten = {}

\* a preserving resize has reallocated p1 and both sides still hold the
\* values written to them
C13_Witness ==
    /\ last.op = "resize" /\ last.c = "p1" /\ last.n > last.old.capacity
    /\ stream = <<>>
    /\ Holds(cont["p1"].devptr) \cap DeviceWritten # {}
    /\ Holds(cont["p1"].hostptr) \cap HostWritten # {}

\* the handler of the last call waited for the stream
Waited == \E i \in 1..Len(last.did) : last.did[i] = "cudaStreamSynchronize"

\* the last call was a resize, copy, clear or transfer that takes a stream
\* and is not marked synchronous
FireAndForget ==
    \/ last.op = "resize" /\ Kind(last.c) # "Host"
    \/ last.op = "copy" /\ Kind(last.c) = "Device"
    \/ last.op = "copy" /\ Kind(last.c) = "Pinned" /\ Kind(last.b) # "Host"
    \/ last.op = "clear" /\ Kind(last.c) # "Host"
    \/ last.op \in {"copyDev", "copyFromDevice", "copyFromHost", "copyDeviceOnly",
                    "clearDevice", "upload", "downloadAsynch"}

\* the preserving resize of a PinnedBuffer that holds elements reallocates
PinnedPreserveRealloc ==
    /\ last.op = "resize" /\ Kind(last.c) = "Pinned"
    /\ last.n > last.old.capacity /\ last.old.size > 0

\* C14 as stated: no resize, copy or clear that takes a stream and is not
\* marked synchronous waits for the stream
C14_Original == FireAndForget => ~Waited

\* C14: a resize, copy, clear or transfer that takes a stream and is not
\* marked synchronous waits for the stream in exactly one case: resize
\* (preserve) of a PinnedBuffer that holds elements and must reallocate
C14_FireAndForget == FireAndForget => (Waited <=> PinnedPreserveRealloc)

\* a preserving resize has reallocated a DeviceBuffer that holds elements and
\* has returned with its copy still pending on the stream
C14_Witness ==
    /\ last.op = "resize" /\ Kind(last.c) = "Device"
    /\ last.n > last.old.capacity /\ last.old.size > 0
    /\ ~Waited /\ stream # <<>>

\* ---------------------------------------------------------------------------
\* Copies into a HostBuffer
\* ---------------------------------------------------------------------------

HostAfter(c) == Side(heap', cont'[c].hostptr, cont'[c].size)
DevAfter(c)  == Side(heap', cont'[c].devptr, cont'[c].size)

\* a copy into a HostBuffer has returned without the fatal error
HostCopyReturned(ops) ==
    /\ Returned /\ Kind(last'.c) = "Host" /\ last'.op \in ops /\ pc' # "fatal"

\* the number of host elements per source element in the copy rec
FactorOf(rec) == IF rec.op = "genericCopy" THEN typeSizeFactor ELSE 1

\* C15 as stated: when a copy into a HostBuffer returns, its first size
\* elements equal the source data
C15_OriginalStep ==
    /\ HostCopyReturned({"copy"}) => HostAfter(last'.c) = HostAfter(last'.b)
    /\ HostCopyReturned({"copyDev", "genericCopy"}) =>
          HostAfter(last'.c) = Split(DevAfter(last'.b), FactorOf(last'))

C15_Original == [][C15_OriginalStep]_vars

\* the copy from a host-addressable source has the data when it returns
C15_HostSourceStep ==
    HostCopyReturned({"copy"}) => HostAfter(last'.c) = HostAfter(last'.b)

\* the copies from a device source set the size, enqueue the transfer and
\* return without waiting
C15_DeviceSourceStep ==
    HostCopyReturned({"copyDev", "genericCopy"}) =>
        LET c == last'.c
            b == last'.b
            f == FactorOf(last')
        IN  /\ cont'[c].size = cont[b].size * f
            /\ stream' = IF cont'[c].size = 0 THEN stream
                         ELSE Append(stream, GenericMemcpyOp(cont'[c].hostptr, cont[b].devptr,
                                                             cont'[c].size, f))
            /\ \A i \in 1..Len(last'.did) : last'.did[i] # "cudaStreamSynchronize"

\* once the stream, empty at the call, has executed the transfer, the
\* HostBuffer holds the source data
C15_DeviceSourceSettled ==
    (/\ last.op \in {"copyDev", "genericCopy"} /\ Kind(last.c) = "Host" /\ pc # "fatal"
     /\ last.quiet /\ stream = <<>>)
        => HostSide(last.c) = Split(DevSide(last.b), FactorOf(last))

\* C15: a copy into a HostBuffer from a host-addressable source is
\* synchronous; a copy from a device source with a stream and genericCopy
\* only enqueue the transfer, and the HostBuffer's first size elements equal
\* the source data once the stream has executed it
C15_HostCopies ==
    /\ [][C15_HostSourceStep /\ C15_DeviceSourceStep]_vars
    /\ [](C15_DeviceSourceSettled)

\* a genericCopy from larger source elements has been executed by the stream
C15_Witness ==
    /\ last.op = "genericCopy" /\ pc # "fatal" /\ typeSizeFactor > 1
    /\ last.quiet /\ stream = <<>>
    /\ cont[last.c].size > cont[last.b].size
    /\ HostSide(last.c)[1] \notin {0, Junk}

\* ---------------------------------------------------------------------------
\* genericCopy's element-size check
\* ---------------------------------------------------------------------------

\* neither element size is an integer multiple of the other
NeitherDivides == script.srcSize % script.dstSize # 0 /\ script.dstSize % script.srcSize # 0

C18_AcceptedStep ==
    HostCopyReturned({"genericCopy"}) =>
        cont'[last'.c].size = cont[last'.b].size * typeSizeFactor

C19_FatalBeforeAnyEffect ==
    [][(Returned /\ last'.op = "genericCopy" /\ NeitherDivides) =>
          /\ pc' = "fatal"
          /\ last'.did = <<"die">>
          /\ cont' = cont /\ heap' = heap /\ stream' = stream]_vars

\* genericCopy into a non-empty HostBuffer from a non-empty source has ended
\* in the fatal error for sizes of which neither divides the other
C19_Witness ==
    /\ last.op = "genericCopy" /\ pc = "fatal" /\ NeitherDivides
    /\ cont[last.c].size > 0 /\ cont[last.b].size > 0

\* ---------------------------------------------------------------------------
\* resize_anew
\* ---------------------------------------------------------------------------

\* how many times the last call made the runtime call e
Times(e) == Cardinality({i \in 1..Len(last.did) : last.did[i] = e})

\* the last call was resize_anew on a DeviceBuffer or a PinnedBuffer
ResizedAnew == last.op = "resize_anew" /\ Kind(last.c) \in {"Device", "Pinned"}

\* the host allocations a container holds next to its device allocation
HostSides(c) == IF Kind(c) = "Pinned" THEN 1 ELSE 0

\* C20: resize_anew(n) on a DeviceBuffer or PinnedBuffer sets size to n; it
\* allocates if and only if n exceeds the capacity it had, and then releases
\* every old allocation, copies and enqueues nothing, and leaves the
\* container owning one live allocation per side; otherwise it makes no
\* runtime call and keeps capacity and pointers
C20_ResizeAnew ==
    ResizedAnew =>
        /\ cont[last.c].size = last.n
        /\ (Times("cudaMalloc") > 0) <=> (last.n > last.old.capacity)
        /\ (last.n > last.old.capacity) =>
              /\ Times("cudaMalloc") = 1 /\ Times("cudaHostAlloc") = HostSides(last.c)
              /\ Times("memcpy") = 0 /\ Times("enqueue") = 0
              /\ Times("cudaStreamSynchronize") = 0
              /\ cont[last.c].capacity >= last.n
              /\ Cardinality(OwnedPointers(last.c)) = 1 + HostSides(last.c)
              /\ \A a \in OwnedPointers(last.c) :
                    heap[a].state = "live" /\ heap[a].cap = cont[last.c].capacity
              /\ Dropped = {last.old.devptr, last.old.hostptr} \ {nullptr}
              /\ \A a \in Dropped : heap[a].state = "freed"
              /\ Times("cudaFree") + Times("cudaFreeHost") = Cardinality(Dropped)
        /\ (last.n <= last.old.capacity) =>
              /\ last.did = <<>>
              /\ cont[last.c] = [last.old EXCEPT !.size = last.n]

\* a PinnedBuffer holding elements has been reallocated by resize_anew
C20_Witness ==
    /\ ResizedAnew /\ Kind(last.c) = "Pinned"
    /\ last.old.size > 0 /\ last.n > last.old.capacity
    /\ Dropped # {}

\* ---------------------------------------------------------------------------
\* Moved-from containers
\* ---------------------------------------------------------------------------

\* the fields of a container of c's kind constructed with size 0
FreshFields(c) ==
    IF Kind(c) = "Device" THEN DeviceBuffer_ctor(NoMachine, c, 0, Det).cont[c]
    ELSE IF Kind(c) = "Host" THEN HostBuffer_ctor(NoMachine, c, 0, Det).cont[c]
    ELSE PinnedBuffer_ctor(NoMachine, c, 0, Det).cont[c]

\* the capacity the growth policy of c's kind gives a request of n elements
FreshCapacity(c, n) ==
    IF n = 0 THEN 0
    ELSE IF Kind(c) = "Device" THEN DeviceBuffer_newCapacity(n)
    ELSE IF Kind(c) = "Host" THEN HostBuffer_newCapacity(n)
    ELSE PinnedBuffer_newCapacity(n)

\* the runtime calls by which an empty container of c's kind gets its storage
FreshAllocs(c) ==
    IF Kind(c) = "Device" THEN <<"cudaMalloc">>
    ELSE IF Kind(c) = "Host" THEN <<"cudaHostAlloc">>
    ELSE <<"cudaHostAlloc", "cudaMalloc">>

IsAllocOrFree(e) == e \in {"cudaMalloc", "cudaHostAlloc", "cudaFree", "cudaFreeHost"}

\* the last call moved the contents out of container c
MovedFrom(c) == last.op \in Moves /\ last.b = c /\ last.c # c

\* the last call constructed container c with size 0
FreshlyEmpty(c) == last.op = "ctor" /\ last.c = c /\ last.n = 0

\* what an operation on an empty, zero-capacity container c does: it starts
\* from the fields of a container constructed with size 0, frees nothing,
\* allocates exactly when it leaves c with capacity, and leaves the size,
\* capacity and fields the operation gives such a container
EmptyOutcome(c) ==
    /\ last'.old = FreshFields(c)
    /\ SelectSeq(last'.did, IsAllocOrFree) =
           IF last'.op \notin Moves /\ cont'[c].capacity > 0 THEN FreshAllocs(c) ELSE <<>>
    /\ doubleFree' = doubleFree
    /\ last'.op \in Resizes =>
           /\ cont'[c].size = last'.n
           /\ cont'[c].capacity = FreshCapacity(c, last'.n)
    /\ last'.op = "clear" => cont'[c] = FreshFields(c) /\ last'.did = <<>>
    /\ last'.op = "copy" =>
           /\ cont'[c].size = cont[last'.b].size
           /\ cont'[c].capacity = FreshCapacity(c, cont[last'.b].size)
    /\ last'.op = "moveAssign" =>
           /\ cont'[c] = cont[last'.b]
           /\ last'.b # c => cont'[last'.b] = FreshFields(c)
           /\ last'.did = <<>>
    /\ last'.op = "dtor" => cont'[c] = NoObject /\ last'.did = <<>>

\* C17: a moved-from container has the fields of a container constructed with
\* size 0, and the next operation on it (resize_anew, resize, clear, copy
\* into it, being moved into again, destruction) has the outcome and the
\* allocation and free calls that the same operation has on a container just
\* constructed with size 0
C17_MovedFromIsFresh ==
    /\ [](\A c \in Slots : MovedFrom(c) => cont[c] = FreshFields(c))
    /\ [][\A c \in Slots :
            (Returned /\ last'.c = c /\ (MovedFrom(c) \/ FreshlyEmpty(c))) => EmptyOutcome(c)]_vars

\* a container that held elements at the start has been moved from and then
\* resized or copied into, which gave it storage again
C17_Witness ==
    /\ calls = 2
    /\ last.c \in MovedSources /\ last.op \in {"resize", "resize_anew", "copy"}
    /\ last.old = EmptyFields
    /\ cont[last.c].capacity > 0

\* ---------------------------------------------------------------------------
\* DeviceBuffer and PinnedBuffer side by side
\* ---------------------------------------------------------------------------

\* how many times the runtime call e occurs in the trace did
CountIn(did, e) == Cardinality({i \in 1..Len(did) : did[i] = e})

\* the PinnedBuffer call that has just returned allocated a (device, host)
\* pair as often as the DeviceBuffer call before it allocated, and freed a
\* pair as often as that call freed
Mirrors ==
    /\ CountIn(last'.did, "cudaMalloc")    = CountIn(last.did, "cudaMalloc")
    /\ CountIn(last'.did, "cudaHostAlloc") = CountIn(last.did, "cudaMalloc")
    /\ CountIn(last'.did, "cudaFree")      = CountIn(last.did, "cudaFree")
    /\ CountIn(last'.did, "cudaFreeHost")  = CountIn(last.did, "cudaFree")

\* C16 as stated: at every step of one sequence of construct, resize, copy,
\* move-construct, move-assign and destroy calls applied to a DeviceBuffer
\* and to a PinnedBuffer, the PinnedBuffer allocates its pair exactly when
\* the DeviceBuffer allocates and frees its pair exactly when the
\* DeviceBuffer frees
C16_Original == [][(pc = "twin" /\ Returned) => Mirrors]_vars

\* the calls other than move assignment mirror each other, and the fields
\* the two containers share are equal after every pair of calls
C16_MirrorsElsewhere ==
    /\ [][(pc = "twin" /\ Returned /\ last.op # "moveAssign") => Mirrors]_vars
    /\ [](pc = "free" => \A c \in DeviceSlots :
             /\ cont[Twin(c)].live = cont[c].live
             /\ cont[Twin(c)].size = cont[c].size
             /\ cont[Twin(c)].capacity = cont[c].capacity)

\* ---------------------------------------------------------------------------
\* DeviceBuffer::copy
\* ---------------------------------------------------------------------------

\* the last call copied DeviceBuffer last.b into another DeviceBuffer last.c
\* on the stream
DeviceCopied(rec) ==
    /\ rec.op = "copy" /\ rec.c \in DeviceSlots /\ rec.b \in DeviceSlots /\ rec.c # rec.b

\* the copy has returned: the destination has the source's size and storage
\* of its own, the source's fields are as before, and once the stream has
\* executed the destination holds the source's elements
C21_Copied ==
    DeviceCopied(last) =>
        /\ cont[last.c].size = cont[last.b].size
        /\ cont[last.b] = last.oldb
        /\ cont[last.c].size > 0 =>
              /\ cont[last.c].devptr \notin {nullptr, cont[last.b].devptr}
              /\ heap[cont[last.c].devptr].state = "live"
              /\ cont[last.c].capacity >= cont[last.c].size
        /\ stream = <<>> => DevSide(last.c) = DevSide(last.b)

\* the call itself leaves the source's contents as they were
C21_SourceKept ==
    (Returned /\ DeviceCopied(last')) =>
        /\ cont'[last'.b] = cont[last'.b]
        /\ Side(heap', cont[last'.b].devptr, cont[last'.b].size) = DevSide(last'.b)

\* the device executes the copy's transfer, the last operation on the stream:
\* the source's elements stay as they are and the destination gets them
C21_Transfer ==
    (/\ DeviceCopied(last) /\ calls' = calls /\ cont[last.c].size > 0
     /\ Len(stream) = 1 /\ stream' = <<>>) =>
        /\ Side(heap', cont[last.b].devptr, cont[last.b].size) = DevSide(last.b)
        /\ Side(heap', cont[last.c].devptr, cont[last.c].size) = DevSide(last.b)

\* C21: after DeviceBuffer::copy(other, stream) the destination's size is
\* other's size and its storage is its own allocation, other's size,
\* capacity, pointer and contents are unchanged, and once the stream has
\* executed the destination's first size elements equal other's
C21_DeviceCopy == [](C21_Copied) /\ [][C21_SourceKept /\ C21_Transfer]_vars

\* a copy of kernel-written values into a DeviceBuffer that had to reallocate
\* has been executed by the stream
C21_Witness ==
    /\ DeviceCopied(last) /\ stream = <<>>
    /\ last.old.capacity < cont[last.c].size
    /\ DevSide(last.c) = DevPattern(1, cont[last.c].size)

\* ---------------------------------------------------------------------------
\* clear
\* ---------------------------------------------------------------------------

Zeros(k) == Const(0, k)

\* clear has returned: the fields are as before, a clear of an empty
\* container made no runtime call, and once the stream has executed the
\* device side is zero
C22_Cleared ==
    last.op = "clear" =>
        /\ cont[last.c] = last.old
        /\ last.old.size = 0 => last.did = <<>>
        /\ (Kind(last.c) # "Host" /\ stream = <<>>) => DevSide(last.c) = Zeros(last.old.size)

\* clear returns: the host side it names is zero, the zero-fill of the device
\* side it names is on the stream, no field of any container has changed, and
\* with size 0 memory and stream are as before
C22_ClearStep ==
    (Returned /\ last'.op = "clear") =>
        LET c == last'.c
            k == cont[c].size
        IN  /\ cont' = cont
            /\ (Kind(c) # "Device" /\ k > 0) => HostAfter(c) = Zeros(k)
            /\ stream' = IF Kind(c) # "Host" /\ k > 0
                         THEN Append(stream, MemsetOp(cont[c].devptr, k)) ELSE stream
            /\ k = 0 => heap' = heap

\* C22: clear on a container with size > 0 leaves each of the first size
\* elements zero on every side it names (DeviceBuffer: device, HostBuffer:
\* host, PinnedBuffer: both), the host side when clear returns and the device
\* side once the stream has executed; with size 0 it enqueues nothing and
\* changes nothing; size, capacity and pointers are unchanged in all cases
C22_ClearZeroes == [](C22_Cleared) /\ [][C22_ClearStep]_vars

\* a PinnedBuffer with written values on the host side and indeterminate
\* contents on the device side has been cleared, and the stream has executed
C22_Witness ==
    /\ last.op = "clear" /\ Kind(last.c) = "Pinned" /\ stream = <<>>
    /\ last.old.size > 0
    /\ last.oldHost[1] \notin {0, Junk} /\ last.oldDev[1] = Junk
    /\ HostSide(last.c) = Zeros(last.old.size)

\* ---------------------------------------------------------------------------
\* PinnedBuffer to PinnedBuffer copy
\* ---------------------------------------------------------------------------

\* the call copied PinnedBuffer rec.b into PinnedBuffer rec.c, with the
\* stream or synchronously
PinnedCopied(rec) ==
    rec.op \in {"copy", "copySync"} /\ rec.c \in PinnedSlots /\ rec.b \in PinnedSlots

\* C23 as stated: once the stream has executed, the destination has the
\* source's size, its device side equals the source's device side and its
\* host side equals the source's host side
C23_Original ==
    (PinnedCopied(last) /\ stream = <<>>) =>
        /\ cont[last.c].size = cont[last.b].size
        /\ DevSide(last.c) = DevSide(last.b)
        /\ HostSide(last.c) = HostSide(last.b)

\* the copy has returned: the sizes are equal; once the stream has executed
\* the device sides are equal; the host sides are equal then too if the
\* stream was empty at the call or the copy was the synchronous one
C23_Copied ==
    PinnedCopied(last) =>
        /\ cont[last.c].size = cont[last.b].size
        /\ stream = <<>> => DevSide(last.c) = DevSide(last.b)
        /\ (stream = <<>> /\ (last.quiet \/ last.op = "copySync")) =>
               HostSide(last.c) = HostSide(last.b)

\* the copy returns: the destination's host side equals the source's host
\* side as it is now, and the copy with a stream has put the device-side
\* transfer on the stream
C23_CopyStep ==
    (Returned /\ PinnedCopied(last')) =>
        /\ HostAfter(last'.c) = HostAfter(last'.b)
        /\ (last'.op = "copy" /\ cont'[last'.c].size > 0) =>
               stream' = Append(stream, MemcpyOp(cont'[last'.c].devptr, cont'[last'.b].devptr,
                                                 cont'[last'.c].size))

\* C23: a copy from a PinnedBuffer into a PinnedBuffer sets the destination's
\* size to the source's and updates both sides, each from the same side of
\* the source: the host side by memcpy before the copy returns, the device
\* side by a transfer that the synchronous variant performs and the variant
\* with a stream enqueues.  Once the stream has executed the device sides
\* are equal; the host sides are equal when no work was pending on the stream
\* at the call, or the copy was the synchronous one
C23_PinnedCopy == [](C23_Copied) /\ [][C23_CopyStep]_vars

\* a copy with a stream between two PinnedBuffers whose sides hold different
\* values has been executed
C23_Witness ==
    /\ PinnedCopied(last) /\ last.op = "copy" /\ last.c # last.b
    /\ last.quiet /\ stream = <<>> /\ cont[last.c].size > 0
    /\ HostSide(last.c) # DevSide(last.c)
    /\ HostSide(last.c)[1] \notin {0, Junk} /\ DevSide(last.c)[1] \notin {0, Junk}

\* ---------------------------------------------------------------------------
\* The transfer chain
\* ---------------------------------------------------------------------------

\* C24: when the chain resize, write, uploadToDevice, copy into a
\* DeviceBuffer, copy into a second PinnedBuffer, downloadFromDevice(Synch)
\* is done, the second PinnedBuffer has the size of the first and its host
\* side holds the values written on the first one's host side, for every
\* size and however the device interleaved with the thread
C24_Chain ==
    pc = "done" =>
        /\ stream = <<>>
        /\ cont["p2"].size = script.n
        /\ HostSide("p2") = Pattern(script.v, script.n)
        /\ HostSide("p1") = Pattern(script.v, script.n)
        /\ ~badAccess

\* the chain is done for a size that made the DeviceBuffer, which held other
\* values, release its allocation for a larger one
C24_Witness ==
    /\ pc = "done" /\ script.n = BigN /\ last.op = "downloadSynch"
    /\ cont["d1"].devptr # nullptr /\ heap[1].state = "freed"
    /\ HostSide("p2") = Pattern(script.v, BigN)

\* ---------------------------------------------------------------------------
\* Lazy allocation
\* ---------------------------------------------------------------------------

\* the operations that request a size: construction, resize and the copies
Requesting ==
    {"ctor", "copyCtor", "resize", "resize_anew", "copy", "copyDev", "copySync",
     "copyFromDevice", "copyFromHost", "copyDeviceOnly", "genericCopy"}

\* the last call allocated
Allocated == Times("cudaMalloc") + Times("cudaHostAlloc") > 0

\* C25: constructing a container with size 0 makes no runtime call and leaves
\* capacity 0 and null pointers; a call allocates only if it is a
\* construction, resize or copy that requests a size greater than 0; and
\* destroying a container that holds no allocation frees nothing
C25_LazyAllocation ==
    /\ (last.op = "ctor" /\ last.n = 0) =>
           /\ last.did = <<>>
           /\ cont[last.c] = EmptyFields
    /\ Allocated => last.op \in Requesting /\ cont[last.c].size > 0
    /\ (last.op = "dtor" /\ last.old.devptr = nullptr /\ last.old.hostptr = nullptr) =>
           /\ Times("cudaFree") + Times("cudaFreeHost") = 0
           /\ last.old.capacity = 0
    /\ ~doubleFree

\* a PinnedBuffer has been constructed with size 0 after another container
\* had allocated
C25_Witness ==
    /\ last.op = "ctor" /\ last.n = 0 /\ Kind(last.c) = "Pinned"
    /\ \E a \in Addrs : heap[a].state = "live"
    /\ OwnedPointers(last.c) = {}

\* ---------------------------------------------------------------------------
\* Failing allocations and transfers
\* ---------------------------------------------------------------------------

\* the runtime calls the call rec made that reported an error
Errors(rec) == {i \in 1..Len(rec.did) : rec.did[i] = "error"}

\* a call in which an allocation or a transfer reported an error returns to
\* nobody: the error is followed by the end of the process and by nothing
\* else, so the failed call is made once and is not made again
C26_FailureStep ==
    Returned =>
        /\ (Errors(last') # {}) <=> (pc' = "fatal")
        /\ \A i \in Errors(last') :
              /\ i > 1 /\ last'.did[i - 1] \in {"cudaMalloc", "cudaHostAlloc", "enqueue"}
              /\ Len(last'.did) = i + 1 /\ last'.did[i + 1] = "die"
              /\ CountIn(last'.did, last'.did[i - 1]) = 1

\* after the fatal end no container operation runs
C26_TerminalStep == pc = "fatal" => (calls' = calls /\ cont' = cont /\ last' = last)

\* C26: when an allocation or a transfer fails inside _resize, the call ends
\* in the fatal error at the failed runtime call, which is not retried, and
\* no further container operation runs
C26_FailureIsFatal == [][C26_FailureStep /\ C26_TerminalStep]_vars

\* the transfer of the old contents in a preserving, reallocating resize of a
\* PinnedBuffer has failed after both new allocations were made
C26_Witness ==
    /\ pc = "fatal" /\ last.op = "resize" /\ Kind(last.c) = "Pinned"
    /\ last.did = <<"cudaHostAlloc", "cudaMalloc", "memcpy", "enqueue", "error", "die">>

\* ---------------------------------------------------------------------------
\* produce()
\* ---------------------------------------------------------------------------

\* the call that returns is produce(): last'.c is the receiver, last'.b the
\* object it returns
Produces == Returned /\ last'.op = "produce"

\* the returned object is a new one of the receiver's kind, empty and without
\* any allocation: the call has allocated nothing
C27_NewEmpty ==
    Produces =>
        /\ last'.b # last'.c /\ ~cont[last'.b].live
        /\ Kind(last'.b) = Kind(last'.c)
        /\ cont'[last'.b] = EmptyFields
        /\ last'.did = <<>>

\* the receiver and everything stored are as before the call
C27_ReceiverKept ==
    Produces =>
        /\ \A c \in Slots \ {last'.b} : cont'[c] = cont[c]
        /\ heap' = heap /\ stream' = stream

\* C27: produce() on a DeviceBuffer or PinnedBuffer in any state returns a new
\* container of the same kind with size 0, capacity 0 and null pointers, owning
\* no allocation, and leaves the receiver's size, capacity, pointers and
\* contents unchanged
C27_Produce == [][C27_NewEmpty /\ C27_ReceiverKept]_vars

\* produce() has returned on a PinnedBuffer that holds elements and has an
\* upload pending, or on a DeviceBuffer that holds elements
C27_Witness ==
    /\ last.op = "produce" /\ cont[last.c].size > 0
    /\ cont[last.b] = EmptyFields
    /\ \/ Kind(last.c) = "Pinned" /\ stream # <<>>
       \/ Kind(last.c) = "Device" /\ cont[last.c].devptr # nullptr

\* ---------------------------------------------------------------------------
\* What leaves pointers, capacity and contents alone
\* ---------------------------------------------------------------------------

Copies   == {"copy", "copyCtor", "copyDev", "copyDeviceOnly", "copyFromDevice",
             "copyFromHost", "copySync"}
Clears   == {"clear", "clearDevice", "clearHost"}
Transfers == {"upload", "downloadSynch", "downloadAsynch"}

\* the size the returning call asked its receiver to have
Requested == IF last'.op \in Copies THEN last'.oldb.size ELSE last'.n

\* the returning call may replace or release the allocations of c
MayReplace(c) ==
    /\ Returned
    /\ \/ last'.op \in Resizes \cup Copies /\ last'.c = c /\ Requested > cont[c].capacity
       \/ last'.op \in Moves /\ c \in {last'.c, last'.b}
       \/ last'.op = "dtor" /\ last'.c = c

\* the pointers and the capacity of c
Storage(f) == <<f.devptr, f.hostptr, f.capacity>>

\* what the allocations of c hold
Stored(h, c) == [a \in OwnedPointers(c) |-> h[a].data]

\* pointers and capacity change, and an owned allocation is freed, only in a
\* growing resize, a move or the destruction
C28_StorageStep ==
    \A c \in Slots : Live(c) =>
        /\ Storage(cont'[c]) # Storage(cont[c]) => MayReplace(c)
        /\ (\E a \in OwnedPointers(c) :
               heap[a].state = "live" /\ heap'[a].state = "freed") => MayReplace(c)

\* clear, upload and download leave the size, the pointers and the capacity
C28_FieldsStep ==
    Returned /\ last'.op \in Clears \cup Transfers => cont'[last'.c] = cont[last'.c]

\* a resize within the capacity changes the size and nothing else
C28_SizeOnlyStep ==
    Returned /\ last'.op \in Resizes /\ last'.n <= cont[last'.c].capacity =>
        /\ cont' = [cont EXCEPT ![last'.c].size = last'.n]
        /\ heap' = heap /\ stream' = stream

\* the source of a copy keeps its fields and, nothing being pending that
\* writes it, what it stores
C28_SourceStep ==
    Returned /\ last'.op \in Copies /\ last'.b # last'.c =>
        /\ cont'[last'.b] = cont[last'.b]
        /\ stream = <<>> => Stored(heap', last'.b) = Stored(heap, last'.b)

\* C28 as stated: clear, uploadToDevice and downloadFromDevice also leave the
\* stored contents of the container unchanged
C28_Original ==
    [][Returned /\ last'.op \in Clears \cup Transfers /\ stream = <<>> =>
           Stored(heap', last'.c) = Stored(heap, last'.c)]_vars

\* C28: a container's pointers and capacity change, and an allocation it owns
\* is freed, only in a resize or copy whose requested size exceeds the
\* capacity, in a move involving it, or in its destruction; clear, upload and
\* download leave size, pointers and capacity unchanged, a copy leaves its
\* source unchanged, and a resize within the capacity changes only the size
C28_Frame ==
    [][C28_StorageStep /\ C28_FieldsStep /\ C28_SizeOnlyStep /\ C28_SourceStep]_vars

\* a HostBuffer holding written elements has been resized to a smaller size
\* within its capacity
C28_Witness ==
    /\ last.op \in Resizes /\ Kind(last.c) = "Host"
    /\ 0 < last.n /\ last.n < last.old.size
    /\ cont[last.c].hostptr = last.old.hostptr /\ cont[last.c].hostptr # nullptr
    /\ \E i \in 1..last.n : last.oldHost[i] \in 1..MaxVal

\* ---------------------------------------------------------------------------
\* Directional copies into a PinnedBuffer
\* ---------------------------------------------------------------------------

\* the returning call is copy(const DeviceBuffer&, stream) or copyDeviceOnly
\* on a PinnedBuffer
DeviceSourced ==
    /\ Returned /\ Kind(last'.c) = "Pinned"
    /\ \/ last'.op = "copy" /\ Kind(last'.b) = "Device"
       \/ last'.op = "copyDeviceOnly"

\* the returning call is copy(const HostBuffer&) on a PinnedBuffer
HostSourced ==
    Returned /\ Kind(last'.c) = "Pinned" /\ last'.op = "copy" /\ Kind(last'.b) = "Host"

\* the elements below the smaller of the old and the new size
KeptLen(c) == Min(cont[c].size, cont'[c].size)

HostKept(c) ==
    Side(heap', cont'[c].hostptr, KeptLen(c)) = Side(heap, cont[c].hostptr, KeptLen(c))
DevKept(c) ==
    Side(heap', cont'[c].devptr, KeptLen(c)) = Side(heap, cont[c].devptr, KeptLen(c))

\* C29 as stated: a copy from a DeviceBuffer and copyDeviceOnly leave the
\* destination's host-side elements below the smaller of the old and the new
\* size unchanged, a copy from a HostBuffer its device-side elements
C29_Original ==
    [][/\ DeviceSourced => HostKept(last'.c)
       /\ HostSourced => DevKept(last'.c)]_vars

\* within the capacity the call writes the named side only: the device-sourced
\* copies write no memory when they return and enqueue transfers into the
\* device side, the host-sourced copy writes the host allocation and enqueues
\* nothing
C29_WithinCapacity ==
    DeviceSourced \/ HostSourced =>
      \A c \in {last'.c} : Requested <= cont[c].capacity =>
        /\ Storage(cont'[c]) = Storage(cont[c])
        /\ DeviceSourced =>
              /\ heap' = heap /\ HostKept(c)
              /\ \A i \in Len(stream) + 1 .. Len(stream') :
                    stream'[i].dst = cont[c].devptr
        /\ HostSourced =>
              /\ stream' = stream /\ DevKept(c)
              /\ \A a \in Addrs \ {cont[c].hostptr} : heap'[a] = heap[a]

\* past the capacity both sides are replaced by new allocations, and the old
\* ones, with what they held, are released
C29_PastCapacity ==
    DeviceSourced \/ HostSourced =>
      \A c \in {last'.c} : Requested > cont[c].capacity =>
        /\ OwnedPointers(c) \cap {cont'[c].hostptr, cont'[c].devptr} = {}
        /\ cont'[c].hostptr # nullptr /\ cont'[c].devptr # nullptr
        /\ \A a \in OwnedPointers(c) : heap'[a].state = "freed"

\* C29: a directional copy into a PinnedBuffer whose source fits the capacity
\* writes only the side it names and leaves the other side's contents
\* unchanged; one whose source exceeds the capacity replaces both sides
C29_NamedSide == [][C29_WithinCapacity /\ C29_PastCapacity]_vars

\* a copy from a DeviceBuffer within the capacity has executed: the device
\* side of the PinnedBuffer holds the source's elements, the host side the
\* values it held before, which differ
C29_Witness ==
    /\ last.op = "copy" /\ Kind(last.c) = "Pinned" /\ Kind(last.b) = "Device"
    /\ last.old.size > 0 /\ cont[last.c].size > 0 /\ stream = <<>>
    /\ cont[last.c].hostptr = last.old.hostptr
    /\ HostSide(last.c) = last.oldHost
    /\ DevSide(last.c) = DevSide(last.b)
    /\ DevSide(last.c) # HostSide(last.c)

\* ---------------------------------------------------------------------------
\* PinnedBuffer: what a preserving reallocation carries over
\* ---------------------------------------------------------------------------

\* the returning call is a resize (preserve) of a PinnedBuffer past its capacity
PinnedRegrown ==
    /\ Returned /\ last'.op = "resize" /\ Kind(last'.c) = "Pinned"
    /\ last'.n > cont[last'.c].capacity

\* the old device side once the operations pending at the call have executed
SettledDevSide(c, stale) ==
    Side(RunStream(Machine, Len(stream), stale).heap, cont[c].devptr, cont[c].size)

\* the new host side starts with the old host side, the new device side with
\* the old device side: as it was at the call when nothing was pending, and
\* otherwise as the pending operations, which execute first, left it
C30_OwnSideStep ==
    PinnedRegrown =>
      \A c \in {last'.c} :
        /\ cont'[c].hostptr # cont[c].hostptr /\ cont'[c].devptr # cont[c].devptr
        /\ Side(heap', cont'[c].hostptr, cont[c].size) = HostSide(c)
        /\ \E stale \in BOOLEAN :
              Side(heap', cont'[c].devptr, cont[c].size) = SettledDevSide(c, stale)
        /\ stream = <<>> => Side(heap', cont'[c].devptr, cont[c].size) = DevSide(c)

\* C30: a preserving resize of a PinnedBuffer that reallocates copies the old
\* host contents into the new host allocation and the old device contents
\* into the new device allocation, each from its own side: afterwards the
\* first old-size elements of either side equal that side's old elements,
\* also when the two sides held different values
C30_OwnSide == [][C30_OwnSideStep]_vars

\* a PinnedBuffer whose sides held different written values has been regrown
\* and each side still starts with its own old values
C30_Witness ==
    /\ last.op = "resize" /\ Kind(last.c) = "Pinned" /\ last.n > last.old.capacity
    /\ last.old.size > 0 /\ last.quiet
    /\ last.oldHost # last.oldDev
    /\ \A i \in 1..last.old.size : last.oldHost[i] # Junk /\ last.oldDev[i] # Junk
    /\ Prefix(heap[cont[last.c].hostptr], last.old.size) = last.oldHost
    /\ Prefix(heap[cont[last.c].devptr], last.old.size) = last.oldDev

\* ---------------------------------------------------------------------------
\* PinnedBuffer: clearDevice and clearHost
\* ---------------------------------------------------------------------------

\* clearDevice returns: no memory is written and no field changes; with
\* elements to clear, the zero-fill of the device side is the one operation
\* put on the stream
C31_ClearDeviceStep ==
    Returned /\ last'.op = "clearDevice" =>
      \A c \in {last'.c} :
        /\ cont' = cont /\ heap' = heap
        /\ stream' = IF cont[c].size > 0
                     THEN Append(stream, MemsetOp(cont[c].devptr, cont[c].size))
                     ELSE stream

\* the device executes a zero-fill: the first count elements of its
\* destination become zero and no other allocation is written
C31_ZeroFillStep ==
    (calls' = calls /\ stream # <<>> /\ stream' = Tail(stream)
        /\ Head(stream).type = "memset") =>
      \A a \in {Head(stream).dst} :
        /\ \A o \in Addrs \ {a} : heap'[o] = heap[o]
        /\ heap[a].state = "live" => Prefix(heap'[a], Head(stream).count) = Zeros(Head(stream).count)

\* clearHost returns: the first size elements of the host side are zero, no
\* other allocation is written, nothing is put on the stream and no field
\* changes
C31_ClearHostStep ==
    Returned /\ last'.op = "clearHost" =>
      \A c \in {last'.c} :
        /\ cont' = cont /\ stream' = stream
        /\ \A o \in Addrs \ {cont[c].hostptr} : heap'[o] = heap[o]
        /\ IF cont[c].size > 0
           THEN Side(heap', cont[c].hostptr, cont[c].size) = Zeros(cont[c].size)
           ELSE heap' = heap

\* once the stream has executed after clearDevice, the device side is zero
\* and the host side is as it was; after clearHost the host side is zero
C31_Cleared ==
    /\ (last.op = "clearDevice" /\ stream = <<>>) =>
          /\ DevSide(last.c) = Zeros(last.old.size)
          /\ HostSide(last.c) = last.oldHost
    /\ last.op = "clearHost" => HostSide(last.c) = Zeros(last.old.size)

\* C31: on a PinnedBuffer clearDevice(stream) zeroes only the device side and
\* leaves every host-side element unchanged, and clearHost() zeroes only the
\* host side and leaves every device-side element unchanged
C31_OneSideCleared ==
    /\ [](C31_Cleared)
    /\ [][C31_ClearDeviceStep /\ C31_ZeroFillStep /\ C31_ClearHostStep]_vars

\* clearDevice on a PinnedBuffer with written values on both sides has
\* executed: the device side is zero, the host side holds its values
C31_Witness ==
    /\ last.op = "clearDevice" /\ stream = <<>> /\ last.old.size > 0
    /\ \A i \in 1..last.old.size : last.oldHost[i] \notin {0, Junk} /\ last.oldDev[i] \notin {0, Junk}
    /\ DevSide(last.c) = Zeros(last.old.size)
    /\ HostSide(last.c) = last.oldHost

\* ---------------------------------------------------------------------------
\* Every allocation is freed
\* ---------------------------------------------------------------------------

\* every container has been destroyed
AllDestroyed == \A c \in Slots : ~Live(c)

\* the allocations that are still live
LiveAllocs == {a \in Addrs : heap[a].state = "live"}

\* C32: every allocation made by a container is freed exactly once: when,
\* after any sequence of operations, every container has been destroyed, no
\* allocation is live and none was freed twice
C32_Original == AllDestroyed => (LiveAllocs = {} /\ ~doubleFree)

\* ---------------------------------------------------------------------------
\* genericCopy: sizes and bytes
\* ---------------------------------------------------------------------------

\* the operations the returning call has put on the stream
Enqueued == SubSeq(stream', Len(stream) + 1, Len(stream'))

\* an accepted genericCopy of m source elements of srcSize bytes leaves
\* m * (srcSize / dstSize) host elements, the same number of bytes, and puts
\* on the stream one transfer of that many bytes from the source's device
\* pointer into the host allocation, or nothing when there are no bytes
C33_GenericCopyStep ==
    HostCopyReturned({"genericCopy"}) =>
      \A c \in {last'.c}, b \in {last'.b} :
        /\ cont'[c].size = cont[b].size * (script.srcSize \div script.dstSize)
        /\ cont'[c].size * script.dstSize = cont[b].size * script.srcSize
        /\ IF cont'[c].size = 0 THEN Enqueued = <<>>
           ELSE /\ Len(Enqueued) = 1
                /\ Enqueued[1].type = "memcpy"
                /\ Enqueued[1].dst = cont'[c].hostptr
                /\ Enqueued[1].src = cont[b].devptr
                /\ Enqueued[1].count * script.dstSize = cont[b].size * script.srcSize
                /\ Enqueued[1].factor = script.srcSize \div script.dstSize

\* C33: when genericCopy accepts a source of m elements of byte size t into a
\* host buffer of element byte size u, the host buffer's size becomes
\* m * (t / u), so that size * u = m * t, exactly that many bytes are
\* transferred from the source's device pointer, and nothing is enqueued when
\* the resulting size is 0
C33_GenericCopySizes == [][C33_GenericCopyStep]_vars

\* genericCopy has returned for source elements several times as large as the
\* host elements and a non-empty source
C33_Witness ==
    /\ last.op = "genericCopy" /\ pc # "fatal"
    /\ script.srcSize > script.dstSize
    /\ last.oldb.size > 0
    /\ cont[last.c].size = last.oldb.size * typeSizeFactor
    /\ cont[last.c].size > last.oldb.size

====
